---- MODULE Spec2Model ----
(***************************************************************************)
(* A model of pixelguard's detection engine: the result constructor of     *)
(* BaseDetector, the input guard and exception guard shared by the four    *)
(* concrete detectors, and CompositeDetector (its mutable detector list    *)
(* and its aggregation); of the analysis layer above it: ImageAnalysis,    *)
(* ImageLoader, ImageAnalyzer and BatchAnalyzer; and of the analyses of    *)
(* the ratio, border fill and uniform colour detectors.                    *)
(*                                                                         *)
(* Python values are modelled as follows.                                  *)
(*   float confidence     a rational [num, den] with den > 0               *)
(*   dict                 a function from its keys to its values           *)
(*   list                 a sequence                                       *)
(*   Optional[x]          a sequence of length 0 (None) or 1               *)
(*   a call's outcome     [raised |-> TRUE, ...] or [raised |-> FALSE, ..] *)
(* Exceptions are instances of Exception (what `except Exception` sees).   *)
(***************************************************************************)
EXTENDS Integers, Sequences, FiniteSets, TLC

VARIABLES
    detectors,      \* CompositeDetector.detectors: the composite's ordered detector list
    call,           \* the last call made on the engine: its operation, inputs and outcome
    emptied,        \* history: the list is empty because remove_detector removed what it held
    image_analysis  \* an ImageAnalysis object: its fields, as add_detection_result leaves them

vars == <<detectors, call, emptied, image_analysis>>

(***************************************************************************)
(* Bounds of the model.                                                    *)
(***************************************************************************)
MaxDetectors == 3

(***************************************************************************)
(* Rational arithmetic for confidences.                                    *)
(***************************************************************************)
Rat(n, d) == [num |-> n, den |-> d]

RatLess(a, b) == a.num * b.den < b.num * a.den

RatEq(a, b) == a.num * b.den = b.num * a.den

RatZero == Rat(0, 1)

RatOne == Rat(1, 1)

(***************************************************************************)
(* Python dict and list helpers.                                           *)
(***************************************************************************)
EmptyDict == <<>>

DictSet(m, k, v) == [j \in (DOMAIN m) \cup {k} |-> IF j = k THEN v ELSE m[j]]

Truthy(collection) == collection # <<>>

(***************************************************************************)
(* BaseDetector._create_result: the only place a DetectionResult is built. *)
(* confidence = max(0.0, min(1.0, confidence)); details or {}; issues or   *)
(* [].                                                                     *)
(***************************************************************************)
PyMin(a, b) == IF RatLess(b, a) THEN b ELSE a

PyMax(a, b) == IF RatLess(a, b) THEN b ELSE a

ClampConfidenceAbove(confidence) == PyMin(RatOne, confidence)

ClampConfidence(confidence) == PyMax(RatZero, PyMin(RatOne, confidence))

DetectionResult(detector_name, is_problematic, confidence, details, issues) ==
    [detector_name |-> detector_name,
     is_problematic |-> is_problematic,
     confidence |-> confidence,
     details |-> details,
     issues |-> issues]

create_result(name, is_problematic, confidence, details, issues) ==
    DetectionResult(name,
                    is_problematic,
                    ClampConfidence(confidence),
                    IF Truthy(details) THEN details ELSE EmptyDict,
                    IF Truthy(issues) THEN issues ELSE <<>>)

(***************************************************************************)
(* BaseDetector._create_error_result.  The issue string                    *)
(* f"{self.name} detection failed: {str(error)}" is kept as its parts.     *)
(***************************************************************************)
FailedIssue(name, message) ==
    [text |-> "detection failed", detector |-> name, message |-> message]

create_error_result(name, message, error_type) ==
    create_result(name,
                  TRUE,
                  RatOne,
                  [error_type |-> error_type, error_message |-> message],
                  <<FailedIssue(name, message)>>)

(***************************************************************************)
(* The detector objects a composite may hold.  Two distinct objects may    *)
(* carry the same name (two RatioDetector instances): neither the          *)
(* constructor nor add_detector checks names.                              *)
(***************************************************************************)
Detector(id, name) == [id |-> id, name |-> name]

DetectorPool ==
    {Detector(1, "border_fill"), Detector(2, "ratio"), Detector(3, "ratio")}

LookupNames == {"border_fill", "ratio", "background"}

DetectorLists == UNION {[1..n -> DetectorPool] : n \in 0..MaxDetectors}

(***************************************************************************)
(* What a sub-detector's detect() may do when the composite calls it:      *)
(* raise an Exception, or return a DetectionResult it built with           *)
(* _create_result from what its analysis computed.                         *)
(***************************************************************************)
Issue(text) == [text |-> text]

Payloads ==
    {[confidence |-> Rat(-1, 2), details |-> EmptyDict, issues |-> <<>>],
     [confidence |-> Rat(1, 2), details |-> [k |-> "v"], issues |-> <<Issue("x")>>],
     [confidence |-> Rat(3, 2), details |-> [k |-> "w"],
      issues |-> <<Issue("y"), Issue("x")>>]}

Raises(message) == [raised |-> TRUE, message |-> message]

Returns(result) == [raised |-> FALSE, result |-> result]

Behaviours ==
    {[raises |-> TRUE]}
    \cup {[raises |-> FALSE, is_problematic |-> p, payload |-> pl] :
            p \in BOOLEAN, pl \in Payloads}

SubOutcome(d, b) ==
    IF b.raises
    THEN Raises("boom")
    ELSE Returns(create_result(d.name, b.is_problematic, b.payload.confidence,
                               b.payload.details, b.payload.issues))

OutcomeLists(ds) ==
    {[i \in 1..Len(ds) |-> SubOutcome(ds[i], bs[i])] : bs \in [1..Len(ds) -> Behaviours]}

(***************************************************************************)
(* CompositeDetector.detect, lines 21-30: the loop over self.detectors.    *)
(* guarded_detect is one iteration's try/except: an Exception out of       *)
(* detector.detect becomes that detector's error result, counted as        *)
(* problematic.  Python would carry an exception that no handler caught    *)
(* out of the loop and out of detect: the loop models that path too.       *)
(***************************************************************************)
guarded_detect_uncounted(detector, outcome) ==
    IF outcome.raised
    THEN [raised |-> FALSE,
          result |-> create_error_result(detector.name, outcome.message,
                                         "detector_error"),
          problematic |-> 0]
    ELSE [raised |-> FALSE,
          result |-> outcome.result,
          problematic |-> IF outcome.result.is_problematic THEN 1 ELSE 0]

guarded_detect_uncaught(detector, outcome) ==
    IF outcome.raised
    THEN [raised |-> TRUE, result |-> <<>>, problematic |-> 0]
    ELSE [raised |-> FALSE,
          result |-> outcome.result,
          problematic |-> IF outcome.result.is_problematic THEN 1 ELSE 0]

guarded_detect(detector, outcome) ==
    IF outcome.raised
    THEN [raised |-> FALSE,
          result |-> create_error_result(detector.name, outcome.message,
                                         "detector_error"),
          problematic |-> 1]
    ELSE [raised |-> FALSE,
          result |-> outcome.result,
          problematic |-> IF outcome.result.is_problematic THEN 1 ELSE 0]

RECURSIVE run_detectors(_, _, _, _)
run_detectors(ds, outs, i, acc) ==
    IF i > Len(ds) \/ acc.raised
    THEN acc
    ELSE LET step == guarded_detect(ds[i], outs[i])
         IN  run_detectors(ds, outs, i + 1,
                 [raised |-> step.raised,
                  calls |-> Append(acc.calls, ds[i]),
                  results |-> IF step.raised THEN acc.results
                              ELSE Append(acc.results, step.result),
                  problematic_count |-> IF step.raised THEN acc.problematic_count
                                        ELSE acc.problematic_count + step.problematic])

(***************************************************************************)
(* CompositeDetector.detect, lines 36-43: details[detector.name] =         *)
(* result.details, and all_issues.extend(result.issues) when not empty,    *)
(* over zip(self.detectors, results).                                      *)
(***************************************************************************)
extend_issues_front(all_issues, result) ==
    IF Truthy(result.issues) THEN result.issues \o all_issues ELSE all_issues

extend_issues(all_issues, result) ==
    IF Truthy(result.issues) THEN all_issues \o result.issues ELSE all_issues

set_details_keep_first(details, detector, result) ==
    IF detector.name \in DOMAIN details
    THEN details
    ELSE DictSet(details, detector.name, result.details)

set_details(details, detector, result) ==
    DictSet(details, detector.name, result.details)

RECURSIVE combine(_, _, _, _)
combine(ds, results, i, acc) ==
    IF i > Len(ds) \/ i > Len(results)
    THEN acc
    ELSE combine(ds, results, i + 1,
             [details |-> set_details(acc.details, ds[i], results[i]),
              all_issues |-> extend_issues(acc.all_issues, results[i])])

aggregate_confidence(problematic_count, ds) == Rat(problematic_count, Len(ds))

aggregate_is_problematic_above_one(problematic_count) == problematic_count > 1

aggregate_is_problematic(problematic_count) == problematic_count > 0

(***************************************************************************)
(* CompositeDetector.detect as a whole: what it returns (or that it        *)
(* raised), the sub-results it collected and the detectors it called.      *)
(***************************************************************************)
composite_detect_unguarded(ds, outs) ==
    LET run == run_detectors(ds, outs, 1,
                   [raised |-> FALSE, calls |-> <<>>, results |-> <<>>,
                    problematic_count |-> 0])
        combined == combine(ds, run.results, 1,
                        [details |-> EmptyDict, all_issues |-> <<>>])
    IN  IF run.raised \/ Len(ds) = 0
        THEN [raised |-> TRUE, calls |-> run.calls, results |-> run.results,
              result |-> <<>>]
        ELSE [raised |-> FALSE, calls |-> run.calls, results |-> run.results,
              result |-> <<create_result("composite",
                              aggregate_is_problematic(run.problematic_count),
                              aggregate_confidence(run.problematic_count, ds),
                              combined.details,
                              combined.all_issues)>>]

composite_detect(ds, outs) ==
    IF ds = <<>>
    THEN [raised |-> FALSE, calls |-> <<>>, results |-> <<>>,
          result |-> <<create_result("composite", FALSE, RatZero, EmptyDict, <<>>)>>]
    ELSE LET run == run_detectors(ds, outs, 1,
                        [raised |-> FALSE, calls |-> <<>>, results |-> <<>>,
                         problematic_count |-> 0])
             combined == combine(ds, run.results, 1,
                             [details |-> EmptyDict, all_issues |-> <<>>])
         IN  IF run.raised
             THEN [raised |-> TRUE, calls |-> run.calls, results |-> run.results,
                   result |-> <<>>]
             ELSE [raised |-> FALSE, calls |-> run.calls, results |-> run.results,
                   result |-> <<create_result("composite",
                                   aggregate_is_problematic(run.problematic_count),
                                   aggregate_confidence(run.problematic_count, ds),
                                   combined.details,
                                   combined.all_issues)>>]

(***************************************************************************)
(* CompositeDetector.add_detector, remove_detector, get_detector.          *)
(***************************************************************************)
add_detector(ds, detector) == Append(ds, detector)

RECURSIVE keep_others(_, _)
keep_others(ds, name) ==
    IF ds = <<>>
    THEN <<>>
    ELSE IF Head(ds).name # name
         THEN <<Head(ds)>> \o keep_others(Tail(ds), name)
         ELSE keep_others(Tail(ds), name)

RECURSIVE remove_first(_, _)
remove_first(ds, name) ==
    IF ds = <<>>
    THEN <<>>
    ELSE IF Head(ds).name = name
         THEN Tail(ds)
         ELSE <<Head(ds)>> \o remove_first(Tail(ds), name)

remove_detector(ds, name) == keep_others(ds, name)

RECURSIVE get_detector(_, _)
get_detector(ds, name) ==
    IF ds = <<>>
    THEN <<>>
    ELSE IF Head(ds).name = name
         THEN <<Head(ds)>>
         ELSE get_detector(Tail(ds), name)

(***************************************************************************)
(* utils.image_utils.validate_image.  An image is None, an object without  *)
(* a shape attribute, an object whose shape property raises an Exception   *)
(* when read, or an array of some rank.  hasattr(image, "shape") is False  *)
(* only when reading the attribute raises AttributeError; any other        *)
(* exception raised by the read leaves hasattr, and so validate_image.     *)
(***************************************************************************)
MaxRank == 3

Images ==
    {[kind |-> "none"], [kind |-> "no_shape"], [kind |-> "shape_raises"]}
    \cup {[kind |-> "array", rank |-> r] : r \in 0..MaxRank}

hasattr_shape(image) ==
    IF image.kind = "shape_raises"
    THEN Raises("Mock error")
    ELSE Returns(image.kind = "array")

validate_image_any_rank(image) ==
    IF image.kind = "none"
    THEN Returns(FALSE)
    ELSE LET has == hasattr_shape(image)
         IN  IF has.raised
             THEN has
             ELSE IF ~has.result
                  THEN Returns(FALSE)
                  ELSE Returns(TRUE)

validate_image(image) ==
    IF image.kind = "none"
    THEN Returns(FALSE)
    ELSE LET has == hasattr_shape(image)
         IN  IF has.raised
             THEN has
             ELSE IF ~has.result
                  THEN Returns(FALSE)
                  ELSE IF image.rank < 2
                       THEN Returns(FALSE)
                       ELSE Returns(TRUE)

(***************************************************************************)
(* detect() of the four concrete detectors.  All four have one shape:      *)
(*     if not self._validate_image(image): return invalid_image error      *)
(*     try: <analysis>; return self._create_result(...)                    *)
(*     except Exception as e: return self._create_error_result(e, <type>)  *)
(* The analysis inside the try either raises or computes the four values   *)
(* handed to _create_result (a Behaviour).                                 *)
(***************************************************************************)
ConcreteDetectors == {"border_fill", "uniform_color", "background", "ratio"}

error_type(name) ==
    CASE name = "border_fill" -> "border_fill_error"
      [] name = "uniform_color" -> "uniform_color_detection_error"
      [] name = "background" -> "background_detection_error"
      [] name = "ratio" -> "ratio_detection_error"

detector_detect(name, image, analysis) ==
    LET valid == validate_image(image)
    IN  IF valid.raised
        THEN [raised |-> TRUE, analysis_ran |-> FALSE, result |-> <<>>]
        ELSE IF ~valid.result
             THEN [raised |-> FALSE, analysis_ran |-> FALSE,
                   result |-> <<create_error_result(name, "Invalid image provided",
                                                    "invalid_image")>>]
             ELSE IF analysis.raises
                  THEN [raised |-> FALSE, analysis_ran |-> TRUE,
                        result |-> <<create_error_result(name, "boom",
                                                         error_type(name))>>]
                  ELSE [raised |-> FALSE, analysis_ran |-> TRUE,
                        result |-> <<create_result(name,
                                         analysis.is_problematic,
                                         analysis.payload.confidence,
                                         analysis.payload.details,
                                         analysis.payload.issues)>>]

(***************************************************************************)
(* Confidences a subclass may hand to _create_result.                      *)
(***************************************************************************)
RawConfidences == {Rat(-1, 2), Rat(0, 1), Rat(1, 2), Rat(1, 1), Rat(3, 2)}

(***************************************************************************)
(* core/models.py: ImageAnalysis.                                          *)
(* ImageAnalysis(file_path, width, height) is the dataclass constructor    *)
(* with its defaults: no detection results, is_problematic False.          *)
(***************************************************************************)
ImageAnalysis(file_path, width, height) ==
    [file_path |-> file_path, width |-> width, height |-> height,
     detection_results |-> <<>>, is_problematic |-> FALSE]

add_detection_result_overwriting(analysis, detection_result) ==
    [analysis EXCEPT
        !.detection_results = Append(@, detection_result),
        !.is_problematic = detection_result.is_problematic]

add_detection_result(analysis, detection_result) ==
    [analysis EXCEPT
        !.detection_results = Append(@, detection_result),
        !.is_problematic = IF detection_result.is_problematic THEN TRUE ELSE @]

(***************************************************************************)
(* The engine is synchronous and single-threaded: a caller makes one call, *)
(* receives what it returns, and only then makes the next.  `call` holds   *)
(* the call that has just returned until the caller has taken its result.  *)
(***************************************************************************)
Idle == [op |-> "idle"]

(***************************************************************************)
(* The composite's operations as actions.                                  *)
(***************************************************************************)
AddDetector ==
    /\ call = Idle
    /\ Len(detectors) < MaxDetectors
    /\ \E d \in DetectorPool :
        /\ detectors' = add_detector(detectors, d)
        /\ call' = [op |-> "add_detector", detector |-> d, before |-> detectors]
        /\ emptied' = FALSE
        /\ UNCHANGED image_analysis

RemoveDetector ==
    /\ call = Idle
    /\ \E name \in LookupNames :
        /\ detectors' = remove_detector(detectors, name)
        /\ call' = [op |-> "remove_detector", name |-> name, before |-> detectors]
        /\ emptied' = IF detectors # <<>> /\ detectors' = <<>> THEN TRUE ELSE emptied
        /\ UNCHANGED image_analysis

GetDetector ==
    /\ call = Idle
    /\ \E name \in LookupNames :
        /\ call' = [op |-> "get_detector", name |-> name,
                    ret |-> get_detector(detectors, name)]
        /\ UNCHANGED <<detectors, emptied, image_analysis>>

CompositeDetect ==
    /\ call = Idle
    /\ \E outs \in OutcomeLists(detectors) :
        LET r == composite_detect(detectors, outs)
        IN  /\ call' = [op |-> "detect", outcomes |-> outs, raised |-> r.raised,
                        calls |-> r.calls, results |-> r.results, result |-> r.result]
            /\ UNCHANGED <<detectors, emptied, image_analysis>>

DetectorDetect ==
    /\ call = Idle
    /\ \E name \in ConcreteDetectors, image \in Images, analysis \in Behaviours :
        LET r == detector_detect(name, image, analysis)
        IN  /\ call' = [op |-> "detector_detect", detector |-> name, image |-> image,
                        analysis |-> analysis, raised |-> r.raised,
                        analysis_ran |-> r.analysis_ran, result |-> r.result]
            /\ UNCHANGED <<detectors, emptied, image_analysis>>

CreateResult ==
    /\ call = Idle
    /\ \E p \in BOOLEAN, confidence \in RawConfidences, pl \in Payloads :
        /\ call' = [op |-> "create_result", is_problematic |-> p,
                    confidence |-> confidence, details |-> pl.details,
                    issues |-> pl.issues,
                    result |-> <<create_result("test_detector", p, confidence,
                                               pl.details, pl.issues)>>]
        /\ UNCHANGED <<detectors, emptied, image_analysis>>

TakeResult ==
    /\ call # Idle
    /\ call' = Idle
    /\ UNCHANGED <<detectors, emptied, image_analysis>>

Init ==
    /\ detectors \in DetectorLists
    /\ call = Idle
    /\ emptied = FALSE
    /\ image_analysis = ImageAnalysis("image.png", 2, 2)

Next ==
    \/ AddDetector
    \/ RemoveDetector
    \/ GetDetector
    \/ CompositeDetect
    \/ DetectorDetect
    \/ CreateResult
    \/ TakeResult

Spec == Init /\ [][Next]_vars

(***************************************************************************)
(* Properties of CompositeDetector.detect.                                 *)
(* A state with call.op = "detect" is the state right after a call of      *)
(* detect() on the list `detectors`; call.outcomes is what each            *)
(* sub-detector's detect() did in that call.                               *)
(***************************************************************************)
Bad(outcome) == outcome.raised \/ outcome.result.is_problematic

BadCount(outs) == Cardinality({i \in DOMAIN outs : Bad(outs[i])})

Returned == call.op = "detect" /\ ~call.raised /\ Len(call.result) = 1

\* C1: after detect() on a non-empty list the returned confidence equals the
\* number of detectors whose result was problematic or whose detect raised,
\* divided by the number of detectors; on the empty list detect() returns
\* confidence 0.0 and is_problematic false.
C1_CompositeConfidence ==
    call.op = "detect" =>
        /\ Returned
        /\ detectors # <<>> =>
              RatEq(call.result[1].confidence,
                    Rat(BadCount(call.outcomes), Len(detectors)))
        /\ detectors = <<>> =>
              /\ RatEq(call.result[1].confidence, RatZero)
              /\ ~call.result[1].is_problematic

C1_Witness ==
    /\ call.op = "detect"
    /\ Len(detectors) = 3
    /\ call.outcomes[1].raised
    /\ ~call.outcomes[2].raised /\ call.outcomes[2].result.is_problematic
    /\ ~call.outcomes[3].raised /\ ~call.outcomes[3].result.is_problematic
    /\ RatEq(call.result[1].confidence, Rat(2, 3))

\* C2: after detect() on a non-empty list, is_problematic is true if and only
\* if at least one detector returned a problematic result or raised.
C2_CompositeProblematicIff ==
    (call.op = "detect" /\ detectors # <<>>) =>
        /\ Returned
        /\ call.result[1].is_problematic
              <=> (\E i \in 1..Len(detectors) : Bad(call.outcomes[i]))

C2_Witness ==
    /\ call.op = "detect"
    /\ Len(detectors) = 2
    /\ ~call.outcomes[1].raised /\ ~call.outcomes[1].result.is_problematic
    /\ ~call.outcomes[2].raised /\ call.outcomes[2].result.is_problematic
    /\ call.result[1].is_problematic

\* C3: detect() never raises.  When a sub-detector's detect raises, the
\* composite records for it a problematic error result (error_type
\* detector_error, confidence 1.0) that counts as problematic, every detector
\* of the list is still called, in order, and an aggregate is returned; with a
\* single raising detector the aggregate is problematic with confidence 1.0.
C3_CompositeNeverRaises ==
    call.op = "detect" =>
        /\ Returned
        /\ call.calls = detectors
        /\ Len(call.results) = Len(detectors)
        /\ \A i \in 1..Len(detectors) :
              IF call.outcomes[i].raised
              THEN /\ call.results[i].detector_name = detectors[i].name
                   /\ call.results[i].is_problematic
                   /\ RatEq(call.results[i].confidence, RatOne)
                   /\ call.results[i].details.error_type = "detector_error"
                   /\ call.results[i].details.error_message = call.outcomes[i].message
                   /\ call.result[1].is_problematic
              ELSE call.results[i] = call.outcomes[i].result
        /\ (Len(detectors) = 1 /\ call.outcomes[1].raised) =>
              /\ call.result[1].is_problematic
              /\ RatEq(call.result[1].confidence, RatOne)

C3_Witness ==
    /\ call.op = "detect"
    /\ Len(detectors) = 3
    /\ call.outcomes[1].raised
    /\ ~call.outcomes[2].raised
    /\ ~call.outcomes[3].raised
    /\ call.calls = detectors
    /\ call.results[3] = call.outcomes[3].result
    /\ ~call.raised

(***************************************************************************)
(* Properties of the concrete detectors' detect().                         *)
(* A state with call.op = "detector_detect" is the state right after       *)
(* detect(call.image) on the detector named call.detector, whose analysis  *)
(* would do call.analysis.                                                 *)
(***************************************************************************)
InvalidImage(image) ==
    \/ image.kind = "none"
    \/ image.kind = "no_shape"
    \/ image.kind = "array" /\ image.rank < 2

IsErrorResult(result) ==
    /\ result.is_problematic
    /\ RatEq(result.confidence, RatOne)
    /\ {"error_type", "error_message"} \subseteq DOMAIN result.details

\* C4: no concrete detector propagates an exception from detect(): an
\* exception raised while handling the input, also one raised when the
\* image's shape attribute is read, becomes a result with is_problematic
\* true, confidence 1.0 and details carrying error_type and error_message
\* (for the ratio detector the error_type is ratio_detection_error).
C4_DetectorNeverPropagates ==
    call.op = "detector_detect" =>
        /\ ~call.raised
        /\ Len(call.result) = 1
        /\ (call.image.kind = "shape_raises"
               \/ (~InvalidImage(call.image) /\ call.analysis.raises)) =>
              /\ IsErrorResult(call.result[1])
              /\ call.detector = "ratio" =>
                    call.result[1].details.error_type = "ratio_detection_error"

\* C5: detect() of each concrete detector on an input that is None, has no
\* shape, or has rank < 2 returns a result with is_problematic true,
\* confidence 1.0 and details.error_type = "invalid_image", and runs no
\* analysis step.
C5_InvalidImageResult ==
    (call.op = "detector_detect" /\ InvalidImage(call.image)) =>
        /\ ~call.raised
        /\ Len(call.result) = 1
        /\ call.result[1].detector_name = call.detector
        /\ IsErrorResult(call.result[1])
        /\ call.result[1].details.error_type = "invalid_image"
        /\ ~call.analysis_ran

C5_Witness ==
    /\ call.op = "detector_detect"
    /\ call.detector = "ratio"
    /\ call.image = [kind |-> "array", rank |-> 1]
    /\ ~call.analysis.raises
    /\ ~call.analysis.is_problematic
    /\ call.result[1].details.error_type = "invalid_image"

(***************************************************************************)
(* Every DetectionResult a state holds: those the last call returned and   *)
(* those it collected from sub-detectors.                                  *)
(***************************************************************************)
ResultsHeld ==
    CASE call.op = "detect" ->
            {call.result[i] : i \in 1..Len(call.result)}
            \cup {call.results[i] : i \in 1..Len(call.results)}
      [] call.op \in {"detector_detect", "create_result"} ->
            {call.result[i] : i \in 1..Len(call.result)}
      [] OTHER -> {}

InUnitInterval(c) == ~RatLess(c, RatZero) /\ ~RatLess(RatOne, c)

\* C6: every DetectionResult has 0 <= confidence <= 1, the clamp being applied
\* when _create_result constructs it: constructed with 1.5 it has 1.0, with
\* -0.5 it has 0.0, and a confidence already in [0, 1] is kept; this holds for
\* the results of the detectors' detect(), of the composite, and for error
\* results.
C6_ConfidenceClamped ==
    /\ \A r \in ResultsHeld : InUnitInterval(r.confidence)
    /\ call.op = "create_result" =>
          /\ RatLess(RatOne, call.confidence) =>
                RatEq(call.result[1].confidence, RatOne)
          /\ RatLess(call.confidence, RatZero) =>
                RatEq(call.result[1].confidence, RatZero)
          /\ InUnitInterval(call.confidence) =>
                RatEq(call.result[1].confidence, call.confidence)

C6_Witness ==
    /\ call.op = "create_result"
    /\ call.confidence = Rat(3, 2)
    /\ call.result[1].confidence = RatOne

(***************************************************************************)
(* Properties of the composite's issue list and details map.               *)
(***************************************************************************)
RECURSIVE IssuesBefore(_, _)
IssuesBefore(results, i) ==
    IF i <= 1 THEN 0 ELSE IssuesBefore(results, i - 1) + Len(results[i - 1].issues)

\* C7: the issues returned by detect() are exactly the concatenation of the
\* sub-results' issue lists in detector list order: the k-th issue of the
\* i-th sub-result stands at position (number of issues of the sub-results
\* before i) + k, and there are no other issues.
C7_IssuesConcatenated ==
    (call.op = "detect" /\ detectors # <<>>) =>
        /\ Returned
        /\ Len(call.results) = Len(detectors)
        /\ Len(call.result[1].issues)
              = IssuesBefore(call.results, Len(call.results) + 1)
        /\ \A i \in 1..Len(call.results) :
              \A k \in 1..Len(call.results[i].issues) :
                 call.result[1].issues[IssuesBefore(call.results, i) + k]
                    = call.results[i].issues[k]

C7_Witness ==
    /\ call.op = "detect"
    /\ Len(detectors) = 3
    /\ ~call.outcomes[1].raised
    /\ call.results[1].issues = <<Issue("y"), Issue("x")>>
    /\ call.outcomes[2].raised
    /\ ~call.outcomes[3].raised
    /\ call.results[3].issues = <<Issue("x")>>
    /\ call.result[1].issues
          = <<Issue("y"), Issue("x"), FailedIssue(detectors[2].name, "boom"),
              Issue("x")>>

NamesOf(ds) == {ds[i].name : i \in 1..Len(ds)}

DistinctNames(ds) ==
    \A i, j \in 1..Len(ds) : ds[i].name = ds[j].name => i = j

LastNamed(ds, name) ==
    CHOOSE i \in 1..Len(ds) :
        /\ ds[i].name = name
        /\ \A j \in 1..Len(ds) : ds[j].name = name => j <= i

\* C8, as claimed: the details map returned by detect() has one entry per
\* detector of the list, keyed by the detector's name and holding that
\* detector's own details, so it has as many entries as the list has
\* detectors.
C8_DetailsOnePerDetector ==
    (call.op = "detect" /\ detectors # <<>>) =>
        /\ Returned
        /\ Cardinality(DOMAIN call.result[1].details) = Len(detectors)
        /\ \A i \in 1..Len(detectors) :
              /\ detectors[i].name \in DOMAIN call.result[1].details
              /\ call.result[1].details[detectors[i].name] = call.results[i].details

\* C8, amended: the details map has one entry per distinct detector name of
\* the list; the entry of a name holds the details of the last detector in
\* the list that carries the name; the map has as many entries as the list
\* has detectors exactly when the names in the list are pairwise distinct.
C8_DetailsOnePerName ==
    (call.op = "detect" /\ detectors # <<>>) =>
        /\ Returned
        /\ DOMAIN call.result[1].details = NamesOf(detectors)
        /\ \A name \in NamesOf(detectors) :
              call.result[1].details[name]
                 = call.results[LastNamed(detectors, name)].details
        /\ (Cardinality(DOMAIN call.result[1].details) = Len(detectors))
              <=> DistinctNames(detectors)

C8_Witness ==
    /\ call.op = "detect"
    /\ Len(detectors) = 3
    /\ detectors[1].name = "ratio"
    /\ detectors[2].name = "border_fill"
    /\ detectors[3].name = "ratio"
    /\ call.results[1].details = [k |-> "v"]
    /\ call.results[3].details = [k |-> "w"]
    /\ call.result[1].details.ratio = [k |-> "w"]
    /\ Cardinality(DOMAIN call.result[1].details) = 2

\* C9: whenever the detector list is empty (also after remove_detector has
\* removed the last detector), detect() returns a result with detector_name
\* "composite", is_problematic false, confidence 0.0, an empty details map
\* and an empty issues list, and calls no detector.
C9_EmptyComposite ==
    (call.op = "detect" /\ detectors = <<>>) =>
        /\ Returned
        /\ call.result[1].detector_name = "composite"
        /\ ~call.result[1].is_problematic
        /\ RatEq(call.result[1].confidence, RatZero)
        /\ DOMAIN call.result[1].details = {}
        /\ Len(call.result[1].issues) = 0
        /\ Len(call.calls) = 0

C9_Witness ==
    /\ call.op = "detect"
    /\ detectors = <<>>
    /\ emptied
    /\ call.calls = <<>>
    /\ ~call.result[1].is_problematic

(***************************************************************************)
(* Properties of add_detector, remove_detector and get_detector.           *)
(* call.before is the detector list when the call began.                   *)
(***************************************************************************)
Named(ds, name) == {i \in 1..Len(ds) : ds[i].name = name}

AddAppends ==
    call.op = "add_detector" =>
        /\ Len(detectors) = Len(call.before) + 1
        /\ \A i \in 1..Len(call.before) : detectors[i] = call.before[i]
        /\ detectors[Len(detectors)] = call.detector

RemoveKeepsOthersInOrder ==
    call.op = "remove_detector" =>
        LET Other(d) == d.name # call.name
        IN  detectors = SelectSeq(call.before, Other)

GetAfterRemoveIsNone ==
    call.op = "remove_detector" => get_detector(detectors, call.name) = <<>>

GetFindsByName ==
    call.op = "get_detector" =>
        /\ Len(call.ret) <= 1
        /\ call.ret = <<>> <=> Named(detectors, call.name) = {}
        /\ call.ret # <<>> =>
              /\ call.ret[1].name = call.name
              /\ \E i \in Named(detectors, call.name) :
                    /\ detectors[i] = call.ret[1]
                    /\ \A j \in Named(detectors, call.name) : i <= j

\* C10, as claimed: add_detector(d) appends d at the end and leaves the
\* earlier detectors and their order unchanged; remove_detector(name), called
\* when a detector of that name is in the list, shortens the list by one and
\* leaves the others in their relative order; get_detector(name) returns a
\* detector of that name if one is in the list and None otherwise, and is
\* None right after remove_detector(name).
C10_RemoveShortensByOne ==
    /\ AddAppends
    /\ RemoveKeepsOthersInOrder
    /\ (call.op = "remove_detector" /\ Named(call.before, call.name) # {}) =>
          Len(detectors) = Len(call.before) - 1
    /\ GetAfterRemoveIsNone
    /\ GetFindsByName

\* C10, amended: as claimed, except that remove_detector(name) removes every
\* detector of that name, so the list gets shorter by the number of detectors
\* that carried the name (by one when exactly one did, by none when none
\* did); and get_detector(name) returns the first detector of that name.
C10_ListOperations ==
    /\ AddAppends
    /\ RemoveKeepsOthersInOrder
    /\ call.op = "remove_detector" =>
          /\ Len(detectors)
                = Len(call.before) - Cardinality(Named(call.before, call.name))
          /\ Named(detectors, call.name) = {}
    /\ GetAfterRemoveIsNone
    /\ GetFindsByName

C10_Witness ==
    /\ call.op = "remove_detector"
    /\ call.name = "ratio"
    /\ Len(call.before) = 3
    /\ call.before[1].name = "ratio"
    /\ call.before[2].name = "border_fill"
    /\ call.before[3].name = "ratio"
    /\ detectors = <<call.before[2]>>

(***************************************************************************)
(* The analysis layer: ImageAnalysis.add_detection_result, ImageLoader,    *)
(* ImageAnalyzer and BatchAnalyzer.                                        *)
(***************************************************************************)
MaxResults == 3

MaxFiles == 3

(***************************************************************************)
(* The detection results handed to add_detection_result: the results the   *)
(* composite's sub-detectors return, under the composite's name.           *)
(***************************************************************************)
AnalysisResults ==
    {create_result("composite", b.is_problematic, b.payload.confidence,
                   b.payload.details, b.payload.issues) :
        b \in {x \in Behaviours : ~x.raises}}

(***************************************************************************)
(* The files on disk.  cv2.imread returns None for a file it cannot        *)
(* decode; a decodable file carries its pixel dimensions and, for each     *)
(* detector of the analyzer's composite, what that detector does with it.  *)
(***************************************************************************)
AnalyzerDetectors == <<Detector(1, "border_fill"), Detector(2, "ratio")>>

Clean == [raises |-> FALSE, is_problematic |-> FALSE,
          payload |-> [confidence |-> Rat(-1, 2), details |-> EmptyDict, issues |-> <<>>]]

Flagging == [raises |-> FALSE, is_problematic |-> TRUE,
             payload |-> [confidence |-> Rat(1, 2), details |-> [k |-> "v"],
                          issues |-> <<Issue("x")>>]]

Failing == [raises |-> TRUE]

FilePool ==
    {[path |-> "corrupt.png", decodable |-> FALSE],
     [path |-> "clean.png", decodable |-> TRUE, height |-> 2, width |-> 3,
      behaviours |-> <<Clean, Clean>>],
     [path |-> "flagged.png", decodable |-> TRUE, height |-> 3, width |-> 2,
      behaviours |-> <<Clean, Flagging>>],
     [path |-> "error.png", decodable |-> TRUE, height |-> 1, width |-> 1,
      behaviours |-> <<Failing, Clean>>],
     [path |-> "truncated.jpg", decodable |-> FALSE]}

FileLists == UNION {[1..n -> FilePool] : n \in 0..MaxFiles}

(***************************************************************************)
(* ImageLoader.load, lines 13-20: ValueError when cv2.imread returns None. *)
(***************************************************************************)
image_loader_load(file) ==
    IF file.decodable
    THEN Returns([kind |-> "array", rank |-> 3,
                  height |-> file.height, width |-> file.width])
    ELSE Raises("Failed to load image")

(***************************************************************************)
(* ImageAnalyzer.analyze, lines 39-47.  No statement of analyze is inside  *)
(* a try: an exception out of load, or out of the composite, leaves        *)
(* analyze.                                                                *)
(***************************************************************************)
create_initial_analysis(image_path, width, height) ==
    ImageAnalysis(image_path, width, height)

analyze(ds, file) ==
    LET loaded == image_loader_load(file)
    IN  IF loaded.raised
        THEN Raises(loaded.message)
        ELSE LET image_analysis_0 ==
                     create_initial_analysis(file.path, loaded.result.width,
                                             loaded.result.height)
                 outs == [i \in 1..Len(ds) |-> SubOutcome(ds[i], file.behaviours[i])]
                 composite_detection == composite_detect(ds, outs)
             IN  IF composite_detection.raised
                 THEN Raises("boom")
                 ELSE Returns(add_detection_result(image_analysis_0,
                                                   composite_detection.result[1]))

(***************************************************************************)
(* BatchAnalyzer, lines 19-50.  _analyze_all_images is a plain for loop:   *)
(* an exception out of _analyze_single_image leaves the loop and process.  *)
(***************************************************************************)
analyze_single_image(ds, file) == analyze(ds, file)

RECURSIVE analyze_all_images(_, _, _, _)
analyze_all_images(ds, image_paths, i, completed_analyses) ==
    IF i > Len(image_paths)
    THEN Returns(completed_analyses)
    ELSE LET single_analysis == analyze_single_image(ds, image_paths[i])
         IN  IF single_analysis.raised
             THEN Raises(single_analysis.message)
             ELSE analyze_all_images(ds, image_paths, i + 1,
                                     Append(completed_analyses, single_analysis.result))

RECURSIVE problematic_image_count(_)
problematic_image_count(image_analyses) ==
    IF image_analyses = <<>>
    THEN 0
    ELSE (IF Head(image_analyses).is_problematic THEN 1 ELSE 0)
         + problematic_image_count(Tail(image_analyses))

BatchSummary(total_images, problematic_images, passed_images) ==
    [total_images |-> total_images, problematic_images |-> problematic_images,
     passed_images |-> passed_images]

create_batch_summary_passed_total(image_analyses) ==
    BatchSummary(Len(image_analyses), problematic_image_count(image_analyses),
                 Len(image_analyses))

create_batch_summary(image_analyses) ==
    BatchSummary(Len(image_analyses), problematic_image_count(image_analyses),
                 Len(image_analyses) - problematic_image_count(image_analyses))

BatchReport(summary, analyses) == [summary |-> summary, analyses |-> analyses]

process(ds, discovered_image_paths) ==
    LET image_analyses == analyze_all_images(ds, discovered_image_paths, 1, <<>>)
    IN  IF image_analyses.raised
        THEN Raises(image_analyses.message)
        ELSE Returns(BatchReport(create_batch_summary(image_analyses.result),
                                 image_analyses.result))

(***************************************************************************)
(* The analysis layer's operations as actions.  The analyzer's composite   *)
(* holds AnalyzerDetectors; image_analysis is one ImageAnalysis object     *)
(* that callers add results to.                                            *)
(***************************************************************************)
AddDetectionResult ==
    /\ call = Idle
    /\ Len(image_analysis.detection_results) < MaxResults
    /\ \E detection_result \in AnalysisResults :
        /\ image_analysis' = add_detection_result(image_analysis, detection_result)
        /\ call' = [op |-> "add_detection_result",
                    detection_result |-> detection_result,
                    before |-> image_analysis]
        /\ UNCHANGED <<detectors, emptied>>

ImageAnalyze ==
    /\ call = Idle
    /\ \E file \in FilePool :
        LET r == analyze(detectors, file)
        IN  /\ call' = [op |-> "analyze", file |-> file, raised |-> r.raised,
                        ret |-> IF r.raised THEN <<>> ELSE <<r.result>>]
            /\ UNCHANGED <<detectors, emptied, image_analysis>>

BatchProcess ==
    /\ call = Idle
    /\ \E files \in FileLists :
        LET r == process(detectors, files)
        IN  /\ call' = [op |-> "process", files |-> files, raised |-> r.raised,
                        report |-> IF r.raised THEN <<>> ELSE <<r.result>>]
            /\ UNCHANGED <<detectors, emptied, image_analysis>>

AnalysisInit ==
    /\ detectors = AnalyzerDetectors
    /\ call = Idle
    /\ emptied = FALSE
    /\ image_analysis = ImageAnalysis("image.png", 2, 2)

AnalysisNext ==
    \/ AddDetectionResult
    \/ TakeResult

AnalysisSpec == AnalysisInit /\ [][AnalysisNext]_vars

BatchNext ==
    \/ ImageAnalyze
    \/ BatchProcess
    \/ TakeResult

BatchSpec == AnalysisInit /\ [][BatchNext]_vars

(***************************************************************************)
(* C11.  After any sequence of add_detection_result calls on a freshly     *)
(* created ImageAnalysis, is_problematic is true if and only if at least   *)
(* one result in detection_results is problematic; a call never turns a    *)
(* true flag false; and a call appends its result at the end of            *)
(* detection_results, the results already there staying as they were.      *)
(***************************************************************************)
AnyProblematic(results) == \E i \in 1..Len(results) : results[i].is_problematic

C11_AnalysisFlag ==
    /\ image_analysis.is_problematic <=> AnyProblematic(image_analysis.detection_results)
    /\ call.op = "add_detection_result" =>
        /\ call.before.is_problematic => image_analysis.is_problematic
        /\ Len(image_analysis.detection_results)
             = Len(call.before.detection_results) + 1
        /\ image_analysis.detection_results[Len(image_analysis.detection_results)]
             = call.detection_result
        /\ SubSeq(image_analysis.detection_results, 1,
                  Len(call.before.detection_results))
             = call.before.detection_results

C11_Witness ==
    /\ call.op = "add_detection_result"
    /\ call.before.is_problematic
    /\ ~call.detection_result.is_problematic
    /\ image_analysis.is_problematic
    /\ Len(image_analysis.detection_results) = 3

(***************************************************************************)
(* C12.  In every BatchReport that BatchAnalyzer.process returns,          *)
(* summary.total_images is the number of analyses, problematic_images is   *)
(* the number of analyses whose is_problematic is true, passed_images is   *)
(* total_images - problematic_images, and 0 <= problematic_images <=       *)
(* total_images.                                                           *)
(***************************************************************************)
Report == call.report[1]

ProblematicAnalyses(analyses) == {i \in 1..Len(analyses) : analyses[i].is_problematic}

C12_BatchSummaryCounts ==
    (call.op = "process" /\ ~call.raised) =>
        /\ Report.summary.total_images = Len(Report.analyses)
        /\ Report.summary.problematic_images
             = Cardinality(ProblematicAnalyses(Report.analyses))
        /\ Report.summary.passed_images
             = Report.summary.total_images - Report.summary.problematic_images
        /\ 0 <= Report.summary.problematic_images
        /\ Report.summary.problematic_images <= Report.summary.total_images

C12_Witness ==
    /\ call.op = "process"
    /\ ~call.raised
    /\ Report.summary.total_images = 3
    /\ Report.summary.problematic_images = 2
    /\ Report.summary.passed_images = 1

(***************************************************************************)
(* C13.  Batch processing isolates per-image failures: whatever files were *)
(* discovered, process returns a BatchReport with one ImageAnalysis for    *)
(* every discovered file, in which a file the loader cannot decode is      *)
(* represented by a problematic ImageAnalysis.                             *)
(***************************************************************************)
C13_BatchIsolatesFailures ==
    call.op = "process" =>
        /\ ~call.raised
        /\ Len(Report.analyses) = Len(call.files)
        /\ \A i \in 1..Len(call.files) :
            /\ Report.analyses[i].file_path = call.files[i].path
            /\ ~call.files[i].decodable => Report.analyses[i].is_problematic

(***************************************************************************)
(* detectors/ratio.py: RatioDetector.                                      *)
(* Ratios, differences and the tolerance are rationals; an image is its    *)
(* shape; an issue string is kept as its parts.                            *)
(***************************************************************************)
MaxDim == 3

MaxTargets == 2

RatAbsDiff(a, b) ==
    LET n == a.num * b.den - b.num * a.den
    IN  Rat(IF n < 0 THEN -n ELSE n, a.den * b.den)

RatLessEq(a, b) == ~RatLess(b, a)

IntMax(a, b) == IF a < b THEN b ELSE a

TargetPool == {<<1, 1>>, <<2, 1>>, <<4, 2>>, <<1, 0>>}

TargetLists == UNION {[1..n -> TargetPool] : n \in 0..MaxTargets}

Tolerances == {Rat(0, 1), Rat(1, 4), Rat(1, 2)}

RatioConfigs ==
    {[target_ratios |-> ts, tolerance |-> tol,
      check_minimum_dimensions |-> cmin, minimum_width |-> 2, minimum_height |-> 2,
      check_maximum_dimensions |-> cmax, maximum_width |-> 2, maximum_height |-> 2] :
        ts \in TargetLists, tol \in Tolerances, cmin \in BOOLEAN, cmax \in BOOLEAN}

RatioImages ==
    {[kind |-> "none"]}
    \cup {[kind |-> "array", rank |-> 3, height |-> h, width |-> w] :
            h \in 0..MaxDim, w \in 1..MaxDim}

DimensionIssue(text, value, bound) == [text |-> text, value |-> value, bound |-> bound]

RatioIssue(actual_ratio, closest) ==
    [text |-> "Ratio doesn't match any target ratios",
     ratio |-> actual_ratio, closest |-> closest]

build_ratio_analysis_details(config, width, height, actual_aspect_ratio) ==
    [width |-> width, height |-> height,
     actual_aspect_ratio |-> actual_aspect_ratio,
     target_ratios |-> config.target_ratios,
     tolerance |-> config.tolerance]

validate_minimum_dimensions_inclusive(config, width, height) ==
    (IF width <= config.minimum_width
     THEN <<DimensionIssue("Width is below minimum", width, config.minimum_width)>>
     ELSE <<>>)
    \o (IF height <= config.minimum_height
        THEN <<DimensionIssue("Height is below minimum", height, config.minimum_height)>>
        ELSE <<>>)

validate_minimum_dimensions(config, width, height) ==
    (IF width < config.minimum_width
     THEN <<DimensionIssue("Width is below minimum", width, config.minimum_width)>>
     ELSE <<>>)
    \o (IF height < config.minimum_height
        THEN <<DimensionIssue("Height is below minimum", height, config.minimum_height)>>
        ELSE <<>>)

validate_maximum_dimensions(config, width, height) ==
    (IF width > config.maximum_width
     THEN <<DimensionIssue("Width exceeds maximum", width, config.maximum_width)>>
     ELSE <<>>)
    \o (IF height > config.maximum_height
        THEN <<DimensionIssue("Height exceeds maximum", height, config.maximum_height)>>
        ELSE <<>>)

validate_dimension_constraints(config, width, height) ==
    (IF config.check_minimum_dimensions
     THEN validate_minimum_dimensions(config, width, height)
     ELSE <<>>)
    \o (IF config.check_maximum_dimensions
        THEN validate_maximum_dimensions(config, width, height)
        ELSE <<>>)

(***************************************************************************)
(* _find_closest_target_ratio, lines 108-126.  smallest_difference starts  *)
(* at float("inf"), modelled as no value.  target_width / target_height    *)
(* raises ZeroDivisionError on a zero target height.  `scanned` counts the *)
(* targets the loop has examined when it ends.                             *)
(***************************************************************************)
is_closer_or_tied(difference, smallest_difference) ==
    smallest_difference = <<>> \/ RatLessEq(difference, smallest_difference[1])

is_closer(difference, smallest_difference) ==
    smallest_difference = <<>> \/ RatLess(difference, smallest_difference[1])

RECURSIVE closest_scan(_, _, _, _, _)
closest_scan(config, actual_ratio, i, closest_ratio_tuple, smallest_difference) ==
    IF i > Len(config.target_ratios)
    THEN [raised |-> FALSE, closest |-> closest_ratio_tuple, scanned |-> i - 1]
    ELSE LET target_width == config.target_ratios[i][1]
             target_height == config.target_ratios[i][2]
         IN  IF target_height = 0
             THEN [raised |-> TRUE, closest |-> <<>>, scanned |-> i]
             ELSE LET difference == RatAbsDiff(actual_ratio,
                                               Rat(target_width, target_height))
                  IN  IF RatLessEq(difference, config.tolerance)
                      THEN [raised |-> FALSE,
                            closest |-> <<config.target_ratios[i]>>, scanned |-> i]
                      ELSE IF is_closer(difference, smallest_difference)
                           THEN closest_scan(config, actual_ratio, i + 1,
                                             <<config.target_ratios[i]>>, <<difference>>)
                           ELSE closest_scan(config, actual_ratio, i + 1,
                                             closest_ratio_tuple, smallest_difference)

find_closest_target_ratio(config, actual_ratio) ==
    IF ~Truthy(config.target_ratios)
    THEN [raised |-> FALSE, closest |-> <<>>, scanned |-> 0]
    ELSE closest_scan(config, actual_ratio, 1, <<>>, <<>>)

is_ratio_within_tolerance_strict(config, actual_ratio, target_ratio_value) ==
    RatLess(RatAbsDiff(actual_ratio, target_ratio_value), config.tolerance)

is_ratio_within_tolerance(config, actual_ratio, target_ratio_value) ==
    RatLessEq(RatAbsDiff(actual_ratio, target_ratio_value), config.tolerance)

validate_aspect_ratio_compliance(config, actual_ratio) ==
    LET found == find_closest_target_ratio(config, actual_ratio)
        closest_target_ratio == found.closest
    IN  IF found.raised
        THEN Raises("division by zero")
        ELSE IF closest_target_ratio = <<>>
             THEN Returns(<<RatioIssue(actual_ratio, <<>>)>>)
             ELSE IF ~is_ratio_within_tolerance(config, actual_ratio,
                                                Rat(closest_target_ratio[1][1],
                                                    closest_target_ratio[1][2]))
                  THEN Returns(<<RatioIssue(actual_ratio, closest_target_ratio)>>)
                  ELSE Returns(<<>>)

ratio_confidence_score_per_target(config, detected_issues) ==
    Rat(Len(detected_issues), IntMax(Len(config.target_ratios), 1))

ratio_confidence_score(config, detected_issues) ==
    Rat(Len(detected_issues), IntMax(Len(config.target_ratios) + 2, 1))

(***************************************************************************)
(* The body of detect's try block, lines 20-38: what it hands to           *)
(* _create_result, or that it raises (ZeroDivisionError on height 0 or on  *)
(* a zero target height).                                                  *)
(***************************************************************************)
ratio_analysis(config, image) ==
    LET height == image.height
        width == image.width
    IN  IF height = 0
        THEN [raises |-> TRUE]
        ELSE LET actual_aspect_ratio == Rat(width, height)
                 dimension_violations ==
                     validate_dimension_constraints(config, width, height)
                 aspect_ratio_violations ==
                     validate_aspect_ratio_compliance(config, actual_aspect_ratio)
             IN  IF aspect_ratio_violations.raised
                 THEN [raises |-> TRUE]
                 ELSE LET detected_issues ==
                              dimension_violations \o aspect_ratio_violations.result
                          analysis_details ==
                              [j \in {"width", "height", "actual_aspect_ratio",
                                      "target_ratios", "tolerance",
                                      "aspect_ratio_violations", "dimension_violations"} |->
                                  CASE j = "aspect_ratio_violations" ->
                                          aspect_ratio_violations.result
                                    [] j = "dimension_violations" -> dimension_violations
                                    [] OTHER ->
                                          build_ratio_analysis_details(
                                              config, width, height, actual_aspect_ratio)[j]]
                      IN  [raises |-> FALSE,
                           is_problematic |-> Len(detected_issues) > 0,
                           payload |-> [confidence |->
                                            ratio_confidence_score(config, detected_issues),
                                        details |-> analysis_details,
                                        issues |-> detected_issues]]

ratio_detect(config, image) == detector_detect("ratio", image, ratio_analysis(config, image))

RatioDetect ==
    /\ call = Idle
    /\ \E config \in RatioConfigs, image \in RatioImages :
        LET r == ratio_detect(config, image)
        IN  /\ call' = [op |-> "ratio_detect", config |-> config, image |-> image,
                        raised |-> r.raised, result |-> r.result,
                        scanned |->
                            IF r.analysis_ran /\ image.height > 0
                            THEN find_closest_target_ratio(
                                     config, Rat(image.width, image.height)).scanned
                            ELSE 0]
            /\ UNCHANGED <<detectors, emptied, image_analysis>>

RatioInit ==
    /\ detectors = <<Detector(1, "ratio")>>
    /\ call = Idle
    /\ emptied = FALSE
    /\ image_analysis = ImageAnalysis("image.png", 2, 2)

RatioNext ==
    \/ RatioDetect
    \/ TakeResult

RatioSpec == RatioInit /\ [][RatioNext]_vars

(***************************************************************************)
(* Properties of RatioDetector.detect.  A state with call.op =             *)
(* "ratio_detect" is the state right after a call; the properties          *)
(* recompute what the call should have returned from its configuration     *)
(* and the image's shape, in integer arithmetic.                           *)
(***************************************************************************)
RatioAnalysed ==
    /\ call.op = "ratio_detect"
    /\ call.image.kind = "array"
    /\ call.image.height > 0

RatioResult == call.result[1]

Targets == call.config.target_ratios

AbsInt(n) == IF n < 0 THEN -n ELSE n

\* |width/height - tw/th|, times height * th
ScaledDifference(i) ==
    AbsInt(call.image.width * Targets[i][2] - Targets[i][1] * call.image.height)

WithinTolerance(i) ==
    /\ Targets[i][2] > 0
    /\ ScaledDifference(i) * call.config.tolerance.den
         <= call.config.tolerance.num * call.image.height * Targets[i][2]

\* target i is at most as far from width/height as target j
NoFarther(i, j) ==
    ScaledDifference(i) * Targets[j][2] <= ScaledDifference(j) * Targets[i][2]

Matching == {i \in 1..Len(Targets) : WithinTolerance(i)}

FirstMatching == CHOOSE i \in Matching : \A j \in Matching : i <= j

\* every division target_width / target_height that the scan performs is defined
ScanDefined ==
    \A j \in 1..Len(Targets) :
        Targets[j][2] = 0 => \E i \in Matching : i < j

TargetsDefined == \A j \in 1..Len(Targets) : Targets[j][2] > 0

RatioIssuesOf(issues) ==
    {k \in 1..Len(issues) : issues[k].text = "Ratio doesn't match any target ratios"}

(***************************************************************************)
(* C14.  The ratio check records no aspect-ratio violation if and only if  *)
(* some target in target_ratios satisfies |width/height - tw/th| <=        *)
(* tolerance (a difference equal to the tolerance passes), wherever in the *)
(* configured order that target stands; and the scan stops at the first    *)
(* such target: no later target is examined.                               *)
(***************************************************************************)
C14_RatioPassIffSomeTargetWithin ==
    (RatioAnalysed /\ ScanDefined) =>
        /\ "aspect_ratio_violations" \in DOMAIN RatioResult.details
        /\ RatioResult.details.aspect_ratio_violations = <<>> <=> Matching # {}
        /\ RatioIssuesOf(RatioResult.issues) = {} <=> Matching # {}
        /\ call.scanned = IF Matching # {} THEN FirstMatching ELSE Len(Targets)

C14_Witness ==
    /\ RatioAnalysed
    /\ call.image.width = 3
    /\ call.image.height = 2
    /\ call.config.tolerance = Rat(1, 2)
    /\ Targets = <<<<2, 1>>, <<1, 0>>>>
    /\ call.scanned = 1
    /\ RatioResult.details.aspect_ratio_violations = <<>>

(***************************************************************************)
(* C15.  When no target ratio is within tolerance, exactly one             *)
(* aspect-ratio issue is recorded.  It names the target whose absolute     *)
(* difference from width/height is smallest over the whole list, the       *)
(* earliest in configured order among targets that tie for the smallest    *)
(* difference; when target_ratios is empty it carries no closest           *)
(* annotation.                                                             *)
(***************************************************************************)
IsEarliestClosest(k) ==
    /\ \A j \in 1..Len(Targets) : NoFarther(k, j)
    /\ \A j \in 1..(k - 1) : ~NoFarther(j, k)

C15_ClosestTargetNamed ==
    (RatioAnalysed /\ TargetsDefined /\ Matching = {}) =>
        /\ Len(RatioResult.details.aspect_ratio_violations) = 1
        /\ Cardinality(RatioIssuesOf(RatioResult.issues)) = 1
        /\ RatioResult.issues[Len(RatioResult.issues)]
             = RatioResult.details.aspect_ratio_violations[1]
        /\ LET issue == RatioResult.details.aspect_ratio_violations[1]
           IN  /\ issue.ratio = Rat(call.image.width, call.image.height)
               /\ Targets = <<>> => issue.closest = <<>>
               /\ Targets # <<>> =>
                    \E k \in 1..Len(Targets) :
                        /\ IsEarliestClosest(k)
                        /\ issue.closest = <<Targets[k]>>

C15_Witness ==
    /\ RatioAnalysed
    /\ call.image.width = 3
    /\ call.image.height = 2
    /\ call.config.tolerance = Rat(1, 4)
    /\ Targets = <<<<1, 1>>, <<2, 1>>>>
    /\ RatioResult.details.aspect_ratio_violations
         = <<RatioIssue(Rat(3, 2), <<<<1, 1>>>>)>>

(***************************************************************************)
(* C16.  RatioDetector emits one issue per violated dimension bound and    *)
(* none otherwise: with check_minimum_dimensions on, one when width <      *)
(* minimum_width and one when height < minimum_height; with                *)
(* check_maximum_dimensions on, one when width > maximum_width and one     *)
(* when height > maximum_height; a check that is off emits nothing; a      *)
(* value equal to its bound is no violation.  The result is problematic    *)
(* iff the total number of issues (dimension plus ratio) is > 0.           *)
(***************************************************************************)
IssuesWith(issues, text) == {k \in 1..Len(issues) : issues[k].text = text}

One(condition) == IF condition THEN 1 ELSE 0

C16_DimensionIssues ==
    /\ call.op = "ratio_detect" =>
        RatioResult.is_problematic <=> Len(RatioResult.issues) > 0
    /\ (RatioAnalysed /\ ScanDefined) =>
        LET dims == RatioResult.details.dimension_violations
            cfg == call.config
            w == call.image.width
            h == call.image.height
        IN  /\ Cardinality(IssuesWith(dims, "Width is below minimum"))
                 = One(cfg.check_minimum_dimensions /\ w < cfg.minimum_width)
            /\ Cardinality(IssuesWith(dims, "Height is below minimum"))
                 = One(cfg.check_minimum_dimensions /\ h < cfg.minimum_height)
            /\ Cardinality(IssuesWith(dims, "Width exceeds maximum"))
                 = One(cfg.check_maximum_dimensions /\ w > cfg.maximum_width)
            /\ Cardinality(IssuesWith(dims, "Height exceeds maximum"))
                 = One(cfg.check_maximum_dimensions /\ h > cfg.maximum_height)
            /\ Len(dims)
                 = One(cfg.check_minimum_dimensions /\ w < cfg.minimum_width)
                   + One(cfg.check_minimum_dimensions /\ h < cfg.minimum_height)
                   + One(cfg.check_maximum_dimensions /\ w > cfg.maximum_width)
                   + One(cfg.check_maximum_dimensions /\ h > cfg.maximum_height)
            /\ RatioResult.issues
                 = dims \o RatioResult.details.aspect_ratio_violations

C16_Witness ==
    /\ RatioAnalysed
    /\ ScanDefined
    /\ call.config.check_minimum_dimensions
    /\ call.config.check_maximum_dimensions
    /\ call.image.width = call.config.minimum_width
    /\ call.image.height = 3
    /\ Len(RatioResult.details.dimension_violations) = 1
    /\ RatioResult.details.aspect_ratio_violations = <<>>
    /\ RatioResult.is_problematic

(***************************************************************************)
(* C17.  RatioDetector's confidence is issue_count / (len(target_ratios)   *)
(* + 2) clamped to [0, 1], issue_count being the total number of dimension *)
(* and ratio issues; it is 0.0 exactly when the result is not problematic. *)
(***************************************************************************)
C17_RatioConfidence ==
    /\ call.op = "ratio_detect" =>
        RatEq(RatioResult.confidence, RatZero) <=> ~RatioResult.is_problematic
    /\ (RatioAnalysed /\ ScanDefined) =>
        LET issue_count == Len(RatioResult.details.dimension_violations)
                           + Len(RatioResult.details.aspect_ratio_violations)
            possible == Len(Targets) + 2
            c == RatioResult.confidence
        IN  /\ c.den > 0
            /\ issue_count <= possible => c.num * possible = issue_count * c.den
            /\ issue_count > possible => c.num = c.den

C17_Witness ==
    /\ RatioAnalysed
    /\ Targets = <<>>
    /\ Len(RatioResult.issues) = 3
    /\ RatEq(RatioResult.confidence, RatOne)

(***************************************************************************)
(* detectors/border_fill.py: BorderFillDetector.                           *)
(* An image is the luminance grid convert_to_grayscale yields (a rank-2    *)
(* uint8 image passes through it unchanged): a sequence of rows, each a    *)
(* sequence of luminances.  Percentages and thresholds are rationals; a    *)
(* numpy slice is the sequence of rows Python's slice semantics selects;   *)
(* numpy's 0/0 is NaN, which compares false with everything.               *)
(***************************************************************************)
MaxRows == 3

NaN == [nan |-> TRUE]

IsNaN(x) == "nan" \in DOMAIN x

FloatGreater(a, b) == ~IsNaN(a) /\ ~IsNaN(b) /\ RatLess(b, a)

FloatGreaterEq(a, b) == ~IsNaN(a) /\ ~IsNaN(b) /\ RatLessEq(b, a)

IntMin(a, b) == IF b < a THEN b ELSE a

\* int(n * fraction) for n >= 0 and a fraction >= 0
IntOfProduct(n, fraction) == (n * fraction.num) \div fraction.den

\* s[start:stop], each index an Optional integer
PySlice(s, start, stop) ==
    LET n == Len(s)
        norm(i) == IF i < 0 THEN IntMax(i + n, 0) ELSE IntMin(i, n)
        lo == IF start = <<>> THEN 0 ELSE norm(start[1])
        hi == IF stop = <<>> THEN n ELSE norm(stop[1])
    IN  SubSeq(s, lo + 1, hi)

RowPool == {<<0, 0>>, <<0, 128>>, <<128, 128>>, <<255, 255>>}

GrayImages ==
    {[kind |-> "none"]}
    \cup {[kind |-> "array", rank |-> 2, pixels |-> rows] :
            rows \in UNION {[1..n -> RowPool] : n \in 1..MaxRows}}

RegionPercentages == {Rat(1, 10), Rat(1, 2), Rat(1, 1)}

FillThresholds ==
    {[black_fill_threshold |-> Rat(1, 20), uniformity_required |-> Rat(9, 10)],
     [black_fill_threshold |-> Rat(1, 2), uniformity_required |-> Rat(1, 2)],
     [black_fill_threshold |-> Rat(1, 20), uniformity_required |-> Rat(1, 2)]}

BorderFillConfigs ==
    {[top_region_percentage |-> tp, bottom_region_percentage |-> bp,
      black_threshold |-> 30, white_threshold |-> 225,
      black_fill_threshold |-> ft.black_fill_threshold,
      white_fill_threshold |-> Rat(1, 20),
      check_top |-> ct, check_bottom |-> cb,
      uniformity_required |-> ft.uniformity_required] :
        tp \in RegionPercentages, bp \in RegionPercentages,
        ft \in FillThresholds, ct \in BOOLEAN, cb \in BOOLEAN}

RECURSIVE CountInRow(_, _, _)
CountInRow(row, threshold, below) ==
    IF row = <<>>
    THEN 0
    ELSE (IF (below /\ Head(row) < threshold) \/ (~below /\ Head(row) > threshold)
          THEN 1 ELSE 0)
         + CountInRow(Tail(row), threshold, below)

\* np.sum(region_pixels < threshold), or (below = FALSE) np.sum(region_pixels > threshold)
RECURSIVE CountPixels(_, _, _)
CountPixels(region_pixels, threshold, below) ==
    IF region_pixels = <<>>
    THEN 0
    ELSE CountInRow(Head(region_pixels), threshold, below)
         + CountPixels(Tail(region_pixels), threshold, below)

\* region_pixels.size, the slice keeping the image's width
RegionSize(region_pixels, width) == Len(region_pixels) * width

Divide(count, size) == IF size = 0 THEN NaN ELSE Rat(count, size)

extract_region_pixels(config, grayscale_image, region_name, height, width) ==
    IF region_name = "top"
    THEN LET region_height == IntOfProduct(height, config.top_region_percentage)
         IN  PySlice(grayscale_image, <<>>, <<region_height>>)
    ELSE LET region_height == IntOfProduct(height, config.bottom_region_percentage)
         IN  PySlice(grayscale_image, <<0 - region_height>>, <<>>)

calculate_black_pixel_percentage(config, region_pixels, total_pixel_count) ==
    Divide(CountPixels(region_pixels, config.black_threshold, TRUE), total_pixel_count)

calculate_white_pixel_percentage(config, region_pixels, total_pixel_count) ==
    Divide(CountPixels(region_pixels, config.white_threshold, FALSE), total_pixel_count)

has_uniform_color_fill_always(config, region_pixels, width, color_type) == TRUE

has_uniform_color_fill(config, region_pixels, width, color_type) ==
    LET threshold == IF color_type = "black"
                     THEN config.black_threshold
                     ELSE config.white_threshold
        matching_pixel_count == CountPixels(region_pixels, threshold, color_type = "black")
        uniformity_percentage ==
            Divide(matching_pixel_count, RegionSize(region_pixels, width))
    IN  FloatGreaterEq(uniformity_percentage, config.uniformity_required)

Title(region_name) == IF region_name = "top" THEN "Top" ELSE "Bottom"

BlackFillIssue(region_name, black_fill_percentage) ==
    [text |-> "border has black fill", region |-> Title(region_name),
     percentage |-> black_fill_percentage]

analyze_border_region(config, grayscale_image, region_name, height, width) ==
    LET region_pixels ==
            extract_region_pixels(config, grayscale_image, region_name, height, width)
        total_pixel_count == RegionSize(region_pixels, width)
        black_fill_percentage ==
            calculate_black_pixel_percentage(config, region_pixels, total_pixel_count)
        has_fill_problem ==
            /\ FloatGreater(black_fill_percentage, config.black_fill_threshold)
            /\ has_uniform_color_fill(config, region_pixels, width, "black")
    IN  [region |-> region_name,
         black_percentage |-> black_fill_percentage,
         is_problematic |-> has_fill_problem,
         issues |-> IF has_fill_problem
                    THEN <<BlackFillIssue(region_name, black_fill_percentage)>>
                    ELSE <<>>]

border_confidence_score(config, problematic_region_count) ==
    LET total_region_count == One(config.check_top) + One(config.check_bottom)
    IN  IF total_region_count > 0
        THEN Rat(problematic_region_count, total_region_count)
        ELSE RatZero

(***************************************************************************)
(* The body of detect's try block, lines 24-59.                            *)
(***************************************************************************)
border_fill_analysis(config, image) ==
    LET grayscale_image == image.pixels
        height == Len(grayscale_image)
        width == Len(grayscale_image[1])
        top_border_analysis ==
            analyze_border_region(config, grayscale_image, "top", height, width)
        bottom_border_analysis ==
            analyze_border_region(config, grayscale_image, "bottom", height, width)
        top_flagged == config.check_top /\ top_border_analysis.is_problematic
        bottom_flagged == config.check_bottom /\ bottom_border_analysis.is_problematic
        details_top == IF config.check_top
                       THEN DictSet(EmptyDict, "top_border", top_border_analysis)
                       ELSE EmptyDict
        analysis_details == IF config.check_bottom
                            THEN DictSet(details_top, "bottom_border",
                                         bottom_border_analysis)
                            ELSE details_top
        detected_issues ==
            (IF top_flagged THEN top_border_analysis.issues ELSE <<>>)
            \o (IF bottom_flagged THEN bottom_border_analysis.issues ELSE <<>>)
        problematic_region_count == One(top_flagged) + One(bottom_flagged)
    IN  [raises |-> FALSE,
         is_problematic |-> Len(detected_issues) > 0,
         payload |-> [confidence |->
                          border_confidence_score(config, problematic_region_count),
                      details |-> analysis_details,
                      issues |-> detected_issues]]

border_fill_detect(config, image) ==
    detector_detect("border_fill", image, border_fill_analysis(config, image))

BorderFillDetect ==
    /\ call = Idle
    /\ \E config \in BorderFillConfigs, image \in GrayImages :
        LET r == border_fill_detect(config, image)
        IN  /\ call' = [op |-> "border_fill_detect", config |-> config,
                        image |-> image, raised |-> r.raised, result |-> r.result]
            /\ UNCHANGED <<detectors, emptied, image_analysis>>

BorderFillInit ==
    /\ detectors = <<Detector(1, "border_fill")>>
    /\ call = Idle
    /\ emptied = FALSE
    /\ image_analysis = ImageAnalysis("image.png", 2, 2)

BorderFillNext ==
    \/ BorderFillDetect
    \/ TakeResult

BorderFillSpec == BorderFillInit /\ [][BorderFillNext]_vars

(***************************************************************************)
(* Properties of BorderFillDetector.detect.  A region's pixels are the     *)
(* rows _extract_region_pixels selects; what they should lead to is        *)
(* recomputed by counting pixel positions.                                 *)
(***************************************************************************)
BorderAnalysed ==
    /\ call.op = "border_fill_detect"
    /\ call.image.kind = "array"

BorderResult == call.result[1]

RegionNames == {"top", "bottom"}

Checked(region_name) ==
    IF region_name = "top" THEN call.config.check_top ELSE call.config.check_bottom

DetailsKey(region_name) == IF region_name = "top" THEN "top_border" ELSE "bottom_border"

ImageWidth == Len(call.image.pixels[1])

RegionOf(region_name) ==
    extract_region_pixels(call.config, call.image.pixels, region_name,
                          Len(call.image.pixels), ImageWidth)

Positions(region_name) == (1..Len(RegionOf(region_name))) \X (1..ImageWidth)

BlackCount(region_name) ==
    Cardinality({p \in Positions(region_name) :
                    RegionOf(region_name)[p[1]][p[2]] < call.config.black_threshold})

WhiteCount(region_name) ==
    Cardinality({p \in Positions(region_name) :
                    RegionOf(region_name)[p[1]][p[2]] > call.config.white_threshold})

PixelCount(region_name) == Cardinality(Positions(region_name))

ShouldFlag(region_name) ==
    /\ PixelCount(region_name) > 0
    /\ BlackCount(region_name) * call.config.black_fill_threshold.den
         > call.config.black_fill_threshold.num * PixelCount(region_name)
    /\ BlackCount(region_name) * call.config.uniformity_required.den
         >= call.config.uniformity_required.num * PixelCount(region_name)

IsBlackFillIssue(issue, region_name) ==
    /\ issue.text = "border has black fill"
    /\ issue.region = Title(region_name)
    /\ issue.percentage.num * PixelCount(region_name)
         = BlackCount(region_name) * issue.percentage.den

FlaggedRegions == {n \in RegionNames : Checked(n) /\ ShouldFlag(n)}

CheckedRegions == {n \in RegionNames : Checked(n)}

C19_WhiteFillDetected ==
    BorderAnalysed =>
        \A n \in RegionNames :
            Checked(n) =>
                /\ "black_percentage" \in DOMAIN BorderResult.details[DetailsKey(n)]
                /\ "white_percentage" \in DOMAIN BorderResult.details[DetailsKey(n)]
                /\ (PixelCount(n) > 0 /\ WhiteCount(n) = PixelCount(n)) =>
                    /\ BorderResult.is_problematic
                    /\ \E k \in 1..Len(BorderResult.issues) :
                        /\ BorderResult.issues[k].text = "border has white fill"
                        /\ BorderResult.issues[k].region = Title(n)

(***************************************************************************)
(* detectors/uniform_color.py: UniformColorDetector.                       *)
(* An image is a grayscale grid; _ensure_3channel_bgr makes each luminance *)
(* v the BGR pixel (v, v, v).  The colour spaces modelled are RGB (cv2's   *)
(* BGR2RGB reverses the channels) and a name convert_color_space does not  *)
(* support.  KMeans with n_clusters = 1 has the mean of the pixels as its  *)
(* one centroid; means and coverages are exact rationals.                  *)
(***************************************************************************)
UniformRowPool == {<<128, 128, 128>>, <<0, 128, 128>>, <<0, 128, 255>>}

UniformImages ==
    {[kind |-> "none"]}
    \cup {[kind |-> "array", rank |-> 2, pixels |-> rows] :
            rows \in UNION {[1..n -> UniformRowPool] : n \in 1..MaxRows}}

EdgeSettings ==
    {[ignore_edges |-> FALSE, edge_ignore_percentage |-> Rat(1, 50)],
     [ignore_edges |-> TRUE, edge_ignore_percentage |-> Rat(1, 50)],
     [ignore_edges |-> TRUE, edge_ignore_percentage |-> Rat(1, 3)]}

UniformColorConfigs ==
    {[color_delta_threshold |-> delta, color_space |-> cs,
      uniform_coverage_threshold |-> th, sample_size |-> size,
      ignore_edges |-> es.ignore_edges,
      edge_ignore_percentage |-> es.edge_ignore_percentage] :
        delta \in {15, 50}, cs \in {"RGB", "XYZ"},
        th \in {Rat(2, 3), Rat(17, 20)}, size \in {2, 1000}, es \in EdgeSettings}

\* cv2.cvtColor(image, COLOR_GRAY2BGR) on a rank-2 image
ensure_3channel_bgr(image) ==
    [r \in 1..Len(image.pixels) |->
        [c \in 1..Len(image.pixels[r]) |->
            <<image.pixels[r][c], image.pixels[r][c], image.pixels[r][c]>>]]

\* reshape(-1, 3): the pixels of the rows, row after row
RECURSIVE Flatten(_)
Flatten(rows) == IF rows = <<>> THEN <<>> ELSE Head(rows) \o Flatten(Tail(rows))

(***************************************************************************)
(* _extract_representative_pixels, lines 65-78, before the sample limit:   *)
(* image[vm:-vm, hm:-hm] under ignore_edges, the whole image otherwise.    *)
(***************************************************************************)
all_pixels(config, image) ==
    LET height == Len(image)
        width == Len(image[1])
    IN  IF config.ignore_edges
        THEN LET vertical_margin == IntOfProduct(height, config.edge_ignore_percentage)
                 horizontal_margin == IntOfProduct(width, config.edge_ignore_percentage)
                 rows == PySlice(image, <<vertical_margin>>, <<0 - vertical_margin>>)
                 interior_region ==
                     [r \in 1..Len(rows) |->
                         PySlice(rows[r], <<horizontal_margin>>,
                                 <<0 - horizontal_margin>>)]
             IN  Flatten(interior_region)
        ELSE Flatten(image)

(***************************************************************************)
(* _limit_sample_size_if_needed, lines 80-86.  np.random.choice draws      *)
(* sample_size distinct indices from an unseeded generator: any choice of  *)
(* that many distinct pixels is a possible sample.  A sample is listed in  *)
(* index order; nothing computed from it depends on its order.             *)
(***************************************************************************)
RECURSIVE IndexChoices(_, _)
IndexChoices(n, k) ==
    IF k = 0
    THEN {<<>>}
    ELSE IF n < k
         THEN {}
         ELSE IndexChoices(n - 1, k)
              \cup {Append(chosen, n) : chosen \in IndexChoices(n - 1, k - 1)}

limit_sample_size_if_needed(config, pixels) ==
    IF Len(pixels) > config.sample_size
    THEN {[i \in 1..config.sample_size |-> pixels[random_indices[i]]] :
            random_indices \in IndexChoices(Len(pixels), config.sample_size)}
    ELSE {pixels}

extract_representative_pixels(config, image) ==
    limit_sample_size_if_needed(config, all_pixels(config, image))

convert_color_space(pixels, target_color_space) ==
    IF Len(pixels) = 0
    THEN Returns(pixels)
    ELSE IF target_color_space = "RGB"
         THEN Returns([i \in 1..Len(pixels) |->
                          <<pixels[i][3], pixels[i][2], pixels[i][1]>>])
         ELSE Raises("Unsupported color space")

RECURSIVE ChannelSum(_, _)
ChannelSum(pixels, c) ==
    IF pixels = <<>> THEN 0 ELSE Head(pixels)[c] + ChannelSum(Tail(pixels), c)

find_dominant_color_with_kmeans(color_space_pixels) ==
    IF Len(color_space_pixels) = 0
    THEN <<Rat(0, 1), Rat(0, 1), Rat(0, 1)>>
    ELSE [c \in 1..3 |-> Rat(ChannelSum(color_space_pixels, c), Len(color_space_pixels))]

WithinDelta(pixel, most_common_color, color_tolerance) ==
    \A c \in 1..3 :
        RatLessEq(RatAbsDiff(Rat(pixel[c], 1), most_common_color[c]),
                  Rat(color_tolerance, 1))

RECURSIVE MatchingPixels(_, _, _)
MatchingPixels(pixels, most_common_color, color_tolerance) ==
    IF pixels = <<>>
    THEN 0
    ELSE One(WithinDelta(Head(pixels), most_common_color, color_tolerance))
         + MatchingPixels(Tail(pixels), most_common_color, color_tolerance)

calculate_color_uniformity_coverage(config, color_space_pixels, most_common_color) ==
    IF Len(color_space_pixels) = 0
    THEN RatZero
    ELSE Rat(MatchingPixels(color_space_pixels, most_common_color,
                            config.color_delta_threshold),
             Len(color_space_pixels))

exceeds_threshold_strictly(config, uniformity_percentage) ==
    RatLess(config.uniform_coverage_threshold, uniformity_percentage)

exceeds_threshold(config, uniformity_percentage) ==
    RatLessEq(config.uniform_coverage_threshold, uniformity_percentage)

UniformIssue(uniformity_percentage, threshold) ==
    [text |-> "Image is uniform color", percentage |-> uniformity_percentage,
     threshold |-> threshold]

build_uniformity_analysis_details(config, uniformity_percentage, most_common_color, sample_count, total_pixel_count) ==
    [uniformity_percentage |-> uniformity_percentage,
     most_common_color |-> most_common_color,
     color_space |-> config.color_space,
     sample_count |-> sample_count,
     total_pixel_count |-> total_pixel_count,
     color_tolerance |-> config.color_delta_threshold,
     threshold |-> config.uniform_coverage_threshold]

(***************************************************************************)
(* The body of detect's try block, lines 22-60, for the sample that        *)
(* _extract_representative_pixels returned.                                *)
(***************************************************************************)
uniform_color_analysis(config, image, sampled_pixels) ==
    LET normalized_image == ensure_3channel_bgr(image)
        total_pixel_count == Len(normalized_image) * Len(normalized_image[1])
        color_space_pixels == convert_color_space(sampled_pixels, config.color_space)
    IN  IF color_space_pixels.raised
        THEN [raises |-> TRUE]
        ELSE LET most_common_color ==
                     find_dominant_color_with_kmeans(color_space_pixels.result)
                 uniformity_percentage ==
                     calculate_color_uniformity_coverage(
                         config, color_space_pixels.result, most_common_color)
                 exceeds == exceeds_threshold(config, uniformity_percentage)
             IN  [raises |-> FALSE,
                  is_problematic |-> exceeds,
                  payload |->
                      [confidence |-> uniformity_percentage,
                       details |-> build_uniformity_analysis_details(
                                       config, uniformity_percentage, most_common_color,
                                       Len(sampled_pixels), total_pixel_count),
                       issues |-> IF exceeds
                                  THEN <<UniformIssue(uniformity_percentage,
                                                      config.uniform_coverage_threshold)>>
                                  ELSE <<>>]]

uniform_color_detect(config, image, sampled_pixels) ==
    detector_detect("uniform_color", image,
                    uniform_color_analysis(config, image, sampled_pixels))

\* the samples a call of detect may draw
Samples(config, image) ==
    IF image.kind = "array"
    THEN extract_representative_pixels(config, ensure_3channel_bgr(image))
    ELSE {<<>>}

UniformColorDetect ==
    /\ call = Idle
    /\ \E config \in UniformColorConfigs, image \in UniformImages :
        \E sampled_pixels \in Samples(config, image) :
            LET r == uniform_color_detect(config, image, sampled_pixels)
            IN  /\ call' = [op |-> "uniform_color_detect", config |-> config,
                            image |-> image, sampled_pixels |-> sampled_pixels,
                            raised |-> r.raised, result |-> r.result]
                /\ UNCHANGED <<detectors, emptied, image_analysis>>

UniformColorInit ==
    /\ detectors = <<Detector(1, "uniform_color")>>
    /\ call = Idle
    /\ emptied = FALSE
    /\ image_analysis = ImageAnalysis("image.png", 2, 2)

UniformColorNext ==
    \/ UniformColorDetect
    \/ TakeResult

UniformColorSpec == UniformColorInit /\ [][UniformColorNext]_vars

(***************************************************************************)
(* C20.  UniformColorDetector returns is_problematic = true if and only if *)
(* coverage >= uniform_coverage_threshold (coverage equal to the threshold *)
(* is flagged), its confidence equals the coverage, and it records exactly *)
(* one issue when flagged and none otherwise.  The coverage is the         *)
(* fraction of the sampled pixels whose every channel is within            *)
(* color_delta_threshold of the sample's mean colour, 0 for no pixels.     *)
(***************************************************************************)
UniformAnalysed ==
    /\ call.op = "uniform_color_detect"
    /\ call.image.kind = "array"
    /\ call.config.color_space = "RGB" \/ call.sampled_pixels = <<>>

UniformResult == call.result[1]

SampleCount == Len(call.sampled_pixels)

SampleSum == ChannelSum(call.sampled_pixels, 1)

\* |v - mean| <= delta, times the number of pixels
Covered ==
    {i \in 1..SampleCount :
        AbsInt(call.sampled_pixels[i][1] * SampleCount - SampleSum)
          <= call.config.color_delta_threshold * SampleCount}

CoverageReaches(threshold) ==
    IF SampleCount = 0
    THEN threshold.num <= 0
    ELSE Cardinality(Covered) * threshold.den >= threshold.num * SampleCount

C20_UniformFlagIffCoverageReached ==
    UniformAnalysed =>
        /\ UniformResult.is_problematic
             <=> CoverageReaches(call.config.uniform_coverage_threshold)
        /\ UniformResult.confidence.den > 0
        /\ IF SampleCount = 0
           THEN UniformResult.confidence.num = 0
           ELSE UniformResult.confidence.num * SampleCount
                  = Cardinality(Covered) * UniformResult.confidence.den
        /\ RatEq(UniformResult.details.uniformity_percentage, UniformResult.confidence)
        /\ Len(UniformResult.issues) = One(UniformResult.is_problematic)
        /\ UniformResult.is_problematic =>
            UniformResult.issues[1].text = "Image is uniform color"

C20_Witness ==
    /\ UniformAnalysed
    /\ SampleCount = 3
    /\ Cardinality(Covered) = 2
    /\ call.config.uniform_coverage_threshold = Rat(2, 3)
    /\ UniformResult.is_problematic
    /\ Len(UniformResult.issues) = 1
    /\ RatEq(UniformResult.confidence, Rat(2, 3))

(***************************************************************************)
(* detectors/background.py: BackgroundDetector.                            *)
(* The images are 4 x 4 grayscale grids of black (0) and white (255)       *)
(* pixels whose one-pixel frame has a single colour.  cv2's 8-bit BGR2LAB  *)
(* maps black to (0, 128, 128) and white to (255, 128, 128), and LAB2BGR   *)
(* maps them back.  With a sample percentage of 1/4 the edge and corner    *)
(* samples lie in the frame, so every dominant colour is black or white    *)
(* and every coverage is an exact number of sixteenths.                    *)
(***************************************************************************)
BackgroundColors == {0, 255}

Framed(frame, interior) ==
    <<<<frame, frame, frame, frame>>,
      <<frame, interior[1], interior[2], frame>>,
      <<frame, interior[3], interior[4], frame>>,
      <<frame, frame, frame, frame>>>>

BackgroundImages ==
    {[kind |-> "none"]}
    \cup {[kind |-> "array", rank |-> 2, pixels |-> Framed(frame, interior)] :
            frame \in BackgroundColors, interior \in [1..4 -> BackgroundColors]}

BackgroundConfigs ==
    {[detection_method |-> method,
      edge_sample_percentage |-> Rat(1, 4),
      corner_sample_percentage |-> Rat(1, 4),
      background_coverage_threshold |-> th,
      background_color_tolerance |-> tol] :
        method \in {"edge_based", "corner_based", "histogram_based", "histogram"},
        th \in {Rat(3, 4), Rat(7, 8)}, tol \in {0, 25}}

\* image[:, start:stop].reshape(-1, 3)
Columns(image, start, stop) ==
    Flatten([r \in 1..Len(image) |-> PySlice(image[r], start, stop)])

extract_edge_samples(image, height, width, sample_percentage) ==
    LET edge_sample_height == IntOfProduct(height, sample_percentage)
        edge_sample_width == IntOfProduct(width, sample_percentage)
        top_edge_pixels == Flatten(PySlice(image, <<>>, <<edge_sample_height>>))
        bottom_edge_pixels == Flatten(PySlice(image, <<0 - edge_sample_height>>, <<>>))
        left_edge_pixels == Columns(image, <<>>, <<edge_sample_width>>)
        right_edge_pixels == Columns(image, <<0 - edge_sample_width>>, <<>>)
    IN  top_edge_pixels \o bottom_edge_pixels \o left_edge_pixels \o right_edge_pixels

extract_corner_samples(image, height, width, sample_percentage) ==
    LET corner_region_height == IntOfProduct(height, sample_percentage)
        corner_region_width == IntOfProduct(width, sample_percentage)
        top_rows == PySlice(image, <<>>, <<corner_region_height>>)
        bottom_rows == PySlice(image, <<0 - corner_region_height>>, <<>>)
        top_left_pixels == Columns(top_rows, <<>>, <<corner_region_width>>)
        top_right_pixels == Columns(top_rows, <<0 - corner_region_width>>, <<>>)
        bottom_left_pixels == Columns(bottom_rows, <<>>, <<corner_region_width>>)
        bottom_right_pixels == Columns(bottom_rows, <<0 - corner_region_width>>, <<>>)
    IN  top_left_pixels \o top_right_pixels \o bottom_left_pixels \o bottom_right_pixels

(***************************************************************************)
(* BackgroundDetector._find_dominant_color_with_kmeans with n_clusters = 1 *)
(* the one centroid is the mean of the pixels, and .astype(int) truncates  *)
(* each channel.                                                           *)
(***************************************************************************)
background_find_dominant_color_with_kmeans(sample_pixels) ==
    IF Len(sample_pixels) = 0
    THEN <<0, 0, 0>>
    ELSE [c \in 1..3 |-> ChannelSum(sample_pixels, c) \div Len(sample_pixels)]

\* np.sum(np.all(np.abs(pixels - target_color) <= color_tolerance, axis=1))
RECURSIVE CountWithinTolerance(_, _, _)
CountWithinTolerance(sample_pixels, target_color, color_tolerance) ==
    IF sample_pixels = <<>>
    THEN 0
    ELSE One(\A c \in 1..3 :
                 AbsInt(Head(sample_pixels)[c] - target_color[c]) <= color_tolerance)
         + CountWithinTolerance(Tail(sample_pixels), target_color, color_tolerance)

calculate_pixel_coverage(sample_pixels, target_color, color_tolerance) ==
    Divide(CountWithinTolerance(sample_pixels, target_color, color_tolerance),
           Len(sample_pixels))

analyze_background_from_edges(config, image) ==
    LET height == Len(image)
        width == Len(image[1])
        edge_pixel_samples ==
            extract_edge_samples(image, height, width, config.edge_sample_percentage)
        most_common_color == background_find_dominant_color_with_kmeans(edge_pixel_samples)
    IN  [dominant_color |-> most_common_color,
         edge_coverage |-> calculate_pixel_coverage(
                               edge_pixel_samples, most_common_color,
                               config.background_color_tolerance),
         detection_method |-> "edge_based",
         sample_count |-> Len(edge_pixel_samples)]

analyze_background_from_corners(config, image) ==
    LET height == Len(image)
        width == Len(image[1])
        corner_pixel_samples ==
            extract_corner_samples(image, height, width,
                                   config.corner_sample_percentage)
        most_common_color ==
            background_find_dominant_color_with_kmeans(corner_pixel_samples)
    IN  [dominant_color |-> most_common_color,
         corner_coverage |-> calculate_pixel_coverage(
                                 corner_pixel_samples, most_common_color,
                                 config.background_color_tolerance),
         detection_method |-> "corner_based",
         sample_count |-> Len(corner_pixel_samples)]

\* cv2.cvtColor(..., COLOR_BGR2LAB) of a black or a white pixel
bgr_to_lab(pixel) ==
    IF pixel = <<255, 255, 255>> THEN <<255, 128, 128>> ELSE <<0, 128, 128>>

\* _convert_lab_to_bgr of the LAB value of black or of white
convert_lab_to_bgr(lab_color) ==
    IF lab_color = <<255, 128, 128>> THEN <<255, 255, 255>> ELSE <<0, 0, 0>>

(***************************************************************************)
(* _find_dominant_color_from_histogram, lines 185-217: KMeans with         *)
(* min(3, n) clusters over the LAB pixels and the centre of the most       *)
(* frequent cluster.  The pixels hold at most two distinct points, so      *)
(* every non-empty cluster holds copies of one point, which is its centre; *)
(* which cluster comes out most frequent is left open: the set of the      *)
(* centres the fit may return.                                             *)
(***************************************************************************)
find_dominant_color_from_histogram(lab_pixels) ==
    {[color |-> lab_pixels[i],
      frequency |-> Rat(Cardinality({j \in 1..Len(lab_pixels) :
                                        lab_pixels[j] = lab_pixels[i]}),
                        Len(lab_pixels))] : i \in 1..Len(lab_pixels)}

analyze_background_from_histogram(config, image) ==
    LET image_pixels == Flatten(image)
        lab_pixels == [i \in 1..Len(image_pixels) |-> bgr_to_lab(image_pixels[i])]
    IN  {[dominant_color |-> convert_lab_to_bgr(most_frequent.color),
          histogram_coverage |-> most_frequent.frequency,
          detection_method |-> "histogram_based",
          total_pixels |-> Len(image_pixels)] :
            most_frequent \in find_dominant_color_from_histogram(lab_pixels)}

\* the analyses _analyze_background_dominance may return
analyze_background_dominance(config, image) ==
    IF config.detection_method = "edge_based"
    THEN {analyze_background_from_edges(config, image)}
    ELSE IF config.detection_method = "corner_based"
         THEN {analyze_background_from_corners(config, image)}
         ELSE analyze_background_from_histogram(config, image)

\* ensure_uint8 of an int64 colour: np.clip(image, 0, 255).astype(np.uint8)
ensure_uint8(color) == [c \in 1..3 |-> IntMax(0, IntMin(color[c], 255))]

(***************************************************************************)
(* _calculate_total_background_coverage, lines 222-239.  lab_pixels and    *)
(* lab_dominant_color are both uint8, so their difference wraps modulo     *)
(* 256; np.linalg.norm squares and sums the wrapped differences as floats. *)
(* The distance is compared with the tolerance by its square.              *)
(***************************************************************************)
lab_distance_squared(lab_pixel, lab_dominant_color) ==
    LET wrapped(c) == (lab_pixel[c] - lab_dominant_color[c]) % 256
    IN  wrapped(1) * wrapped(1) + wrapped(2) * wrapped(2) + wrapped(3) * wrapped(3)

RECURSIVE CountBackground(_, _, _)
CountBackground(image_pixels, lab_dominant_color, tolerance) ==
    IF image_pixels = <<>>
    THEN 0
    ELSE One(lab_distance_squared(bgr_to_lab(Head(image_pixels)), lab_dominant_color)
                 <= tolerance * tolerance)
         + CountBackground(Tail(image_pixels), lab_dominant_color, tolerance)

calculate_total_background_coverage(config, image, dominant_color) ==
    LET image_pixels == Flatten(image)
        lab_dominant_color == bgr_to_lab(ensure_uint8(dominant_color))
        matching_pixels_count ==
            CountBackground(image_pixels, lab_dominant_color,
                            config.background_color_tolerance)
    IN  Rat(matching_pixels_count, Len(image_pixels))

background_exceeds_threshold_inclusive(config, actual_coverage) ==
    RatLessEq(config.background_coverage_threshold, actual_coverage)

\* detect, lines 37-39: actual_coverage > self.config.background_coverage_threshold
background_exceeds_threshold(config, actual_coverage) ==
    RatLess(config.background_coverage_threshold, actual_coverage)

\* f"Background dominates {actual_coverage*100:.1f}% of image", kept as its parts
BackgroundIssue(actual_coverage) ==
    [text |-> "Background dominates", percentage |-> actual_coverage]

(***************************************************************************)
(* The body of detect's try block, lines 31-55, for the analysis that      *)
(* _analyze_background_dominance returned.  The analyses above never take  *)
(* the fallback of lines 125-134: no step of theirs raises on these        *)
(* images.                                                                 *)
(***************************************************************************)
background_analysis_result(config, image, background_analysis) ==
    LET normalized_image == ensure_3channel_bgr(image)
        actual_coverage ==
            calculate_total_background_coverage(
                config, normalized_image, background_analysis.dominant_color)
        exceeds == background_exceeds_threshold(config, actual_coverage)
    IN  [raises |-> FALSE,
         is_problematic |-> exceeds,
         payload |->
             [confidence |-> actual_coverage,
              details |-> [dominant_color |-> background_analysis.dominant_color,
                           coverage_percentage |-> actual_coverage,
                           detection_method |-> background_analysis.detection_method],
              issues |-> IF exceeds THEN <<BackgroundIssue(actual_coverage)>> ELSE <<>>]]

background_detect(config, image, background_analysis) ==
    detector_detect("background", image,
                    background_analysis_result(config, image, background_analysis))

\* the analyses a call of detect may work from
BackgroundAnalyses(config, image) ==
    IF image.kind = "array"
    THEN analyze_background_dominance(config, ensure_3channel_bgr(image))
    ELSE {<<>>}

BackgroundDetect ==
    /\ call = Idle
    /\ \E config \in BackgroundConfigs, image \in BackgroundImages :
        \E background_analysis \in BackgroundAnalyses(config, image) :
            LET r == background_detect(config, image, background_analysis)
            IN  /\ call' = [op |-> "background_detect", config |-> config,
                            image |-> image, raised |-> r.raised, result |-> r.result]
                /\ UNCHANGED <<detectors, emptied, image_analysis>>

BackgroundInit ==
    /\ detectors = <<Detector(1, "background")>>
    /\ call = Idle
    /\ emptied = FALSE
    /\ image_analysis = ImageAnalysis("image.png", 2, 2)

BackgroundNext ==
    \/ BackgroundDetect
    \/ TakeResult

BackgroundSpec == BackgroundInit /\ [][BackgroundNext]_vars

BackgroundAnalysed ==
    /\ call.op = "background_detect"
    /\ call.image.kind = "array"

BackgroundResult == call.result[1]

\* the pixels of the image whose LAB distance from the dominant colour, taken
\* in 8-bit arithmetic, is within the tolerance
BackgroundCovered ==
    LET dominant == BackgroundResult.details.dominant_color[1]
        wrapped(v) == (v - dominant) % 256
        rows == call.image.pixels
    IN  {position \in (1..Len(rows)) \X (1..Len(rows[1])) :
            wrapped(rows[position[1]][position[2]])
                <= call.config.background_color_tolerance}

BackgroundPixelCount == Len(call.image.pixels) * Len(call.image.pixels[1])

(***************************************************************************)
(* C21.  BackgroundDetector returns is_problematic = true if and only if   *)
(* the total coverage is strictly greater than                             *)
(* background_coverage_threshold (a coverage exactly equal to the          *)
(* threshold is not flagged), its confidence equals the coverage, and any  *)
(* detection_method other than "edge_based" or "corner_based" selects the  *)
(* histogram method.  The total coverage is the fraction of the image's    *)
(* pixels within the tolerance of the dominant colour.                     *)
(***************************************************************************)
C21_BackgroundFlagIffCoverageExceeds ==
    BackgroundAnalysed =>
        LET coverage == BackgroundResult.details.coverage_percentage
            threshold == call.config.background_coverage_threshold
            method == call.config.detection_method
        IN  /\ ~call.raised
            /\ RatEq(coverage, Rat(Cardinality(BackgroundCovered), BackgroundPixelCount))
            /\ BackgroundResult.is_problematic <=> RatLess(threshold, coverage)
            /\ RatEq(coverage, threshold) => ~BackgroundResult.is_problematic
            /\ RatEq(BackgroundResult.confidence, coverage)
            /\ Len(BackgroundResult.issues) = One(BackgroundResult.is_problematic)
            /\ BackgroundResult.details.detection_method =
                   IF method \in {"edge_based", "corner_based"}
                   THEN method
                   ELSE "histogram_based"

\* an image three quarters covered under a threshold of three quarters, by
\* the histogram method under another name: not flagged
C21_Witness ==
    /\ BackgroundAnalysed
    /\ call.config.detection_method = "histogram"
    /\ BackgroundResult.details.detection_method = "histogram_based"
    /\ call.config.background_coverage_threshold = Rat(3, 4)
    /\ RatEq(BackgroundResult.details.coverage_percentage, Rat(3, 4))
    /\ ~BackgroundResult.is_problematic
    /\ RatEq(BackgroundResult.confidence, Rat(3, 4))

(***************************************************************************)
(* Two calls of UniformColorDetector.detect with the same image and the    *)
(* same config.  The detector holds only its config, so a second call on   *)
(* the same instance and one on another instance built from the same       *)
(* config run the same code; each call draws its own sample from numpy's   *)
(* process-wide generator.  The second call's record keeps the result of   *)
(* the first.  The images are single rows of three pixels.                 *)
(***************************************************************************)
RepeatImages ==
    {[kind |-> "array", rank |-> 2, pixels |-> <<row>>] : row \in UniformRowPool}

RepeatConfigs == {config \in UniformColorConfigs : ~config.ignore_edges}

UniformColorDetectFirst ==
    /\ call = Idle
    /\ \E config \in RepeatConfigs, image \in RepeatImages :
        \E sampled_pixels \in Samples(config, image) :
            LET r == uniform_color_detect(config, image, sampled_pixels)
            IN  /\ call' = [op |-> "uniform_color_detect", config |-> config,
                            image |-> image, sampled_pixels |-> sampled_pixels,
                            raised |-> r.raised, result |-> r.result]
                /\ UNCHANGED <<detectors, emptied, image_analysis>>

UniformColorDetectAgain ==
    /\ call # Idle
    /\ call.op = "uniform_color_detect"
    /\ \E sampled_pixels \in Samples(call.config, call.image) :
        LET r == uniform_color_detect(call.config, call.image, sampled_pixels)
        IN  /\ call' = [op |-> "uniform_color_detect_again", config |-> call.config,
                        image |-> call.image, sampled_pixels |-> sampled_pixels,
                        raised |-> r.raised, result |-> r.result,
                        first_sampled_pixels |-> call.sampled_pixels,
                        first_result |-> call.result]
            /\ UNCHANGED <<detectors, emptied, image_analysis>>

RepeatNext ==
    \/ UniformColorDetectFirst
    \/ UniformColorDetectAgain
    \/ TakeResult

RepeatSpec == UniformColorInit /\ [][RepeatNext]_vars

(***************************************************************************)
(* C22.  Each detect() call is a deterministic function of (image buffer,  *)
(* config): two calls with the same image and the same config return equal *)
(* DetectionResults, also for UniformColorDetector when the analysis       *)
(* region holds more than sample_size pixels.                              *)
(***************************************************************************)
C22_DetectDeterministic ==
    (call # Idle /\ call.op = "uniform_color_detect_again") =>
        call.result = call.first_result

(***************************************************************************)
(* core/config.py: ConfigFactory.                                          *)
(* A float is the exact rational its decimal text denotes.  The text of an *)
(* environment variable is a sequence of one-character strings, so that    *)
(* lower, strip, split, int and float are modelled by what they do to the  *)
(* characters.  os.environ is a function from the names of the variables   *)
(* that are set to their texts.  The texts handed to int and float hold    *)
(* digits, letters, spaces, signs, "." and ":"; none spells an exponent,   *)
(* an underscore, "inf" or "nan".                                          *)
(***************************************************************************)
Digits == <<"0", "1", "2", "3", "4", "5", "6", "7", "8", "9">>

UpperCase == <<"A", "B", "C", "D", "E", "F", "G", "H", "I", "J", "K", "L", "M", "N", "O", "P", "Q", "R", "S", "T", "U", "V", "W", "X", "Y", "Z">>

LowerCase == <<"a", "b", "c", "d", "e", "f", "g", "h", "i", "j", "k", "l", "m", "n", "o", "p", "q", "r", "s", "t", "u", "v", "w", "x", "y", "z">>

IsDigit(ch) == \E i \in 1..Len(Digits) : Digits[i] = ch

DigitValue(ch) == (CHOOSE i \in 1..Len(Digits) : Digits[i] = ch) - 1

LowerChar(ch) ==
    IF \E i \in 1..Len(UpperCase) : UpperCase[i] = ch
    THEN LowerCase[CHOOSE i \in 1..Len(UpperCase) : UpperCase[i] = ch]
    ELSE ch

\* str.lower()
Lower(text) == [i \in 1..Len(text) |-> LowerChar(text[i])]

RECURSIVE LStrip(_)
LStrip(text) == IF text # <<>> /\ Head(text) = " " THEN LStrip(Tail(text)) ELSE text

RECURSIVE RStrip(_)
RStrip(text) ==
    IF text # <<>> /\ text[Len(text)] = " "
    THEN RStrip(SubSeq(text, 1, Len(text) - 1))
    ELSE text

\* str.strip()
Strip(text) == RStrip(LStrip(text))

RECURSIVE SplitFrom(_, _, _, _)
SplitFrom(text, separator, pieces, piece) ==
    IF text = <<>>
    THEN Append(pieces, piece)
    ELSE IF Head(text) = separator
         THEN SplitFrom(Tail(text), separator, Append(pieces, piece), <<>>)
         ELSE SplitFrom(Tail(text), separator, pieces, Append(piece, Head(text)))

\* str.split(separator) for a one-character separator
Split(text, separator) == SplitFrom(text, separator, <<>>, <<>>)

AllDigits(text) == \A i \in 1..Len(text) : IsDigit(text[i])

RECURSIVE DigitsValue(_, _)
DigitsValue(text, value) ==
    IF text = <<>>
    THEN value
    ELSE DigitsValue(Tail(text), 10 * value + DigitValue(Head(text)))

RECURSIVE PowerOfTen(_)
PowerOfTen(n) == IF n = 0 THEN 1 ELSE 10 * PowerOfTen(n - 1)

HasSign(text) == text # <<>> /\ Head(text) \in {"+", "-"}

Unsigned(text) == IF HasSign(text) THEN Tail(text) ELSE text

SignOf(text) == IF HasSign(text) /\ Head(text) = "-" THEN -1 ELSE 1

(***************************************************************************)
(* int(text): surrounding whitespace, an optional sign, one or more        *)
(* digits; ValueError otherwise.                                           *)
(***************************************************************************)
int_of(text) ==
    LET stripped == Strip(text)
        body == Unsigned(stripped)
    IN  IF body # <<>> /\ AllDigits(body)
        THEN Returns(SignOf(stripped) * DigitsValue(body, 0))
        ELSE Raises("ValueError: invalid literal for int()")

(***************************************************************************)
(* float(text): surrounding whitespace, an optional sign, digits with an   *)
(* optional decimal point and at least one digit; ValueError otherwise.    *)
(***************************************************************************)
float_of_parts(sign, parts) ==
    IF /\ Len(parts) \in {1, 2}
       /\ \A i \in 1..Len(parts) : AllDigits(parts[i])
       /\ \E i \in 1..Len(parts) : parts[i] # <<>>
    THEN LET whole == parts[1]
             fraction == IF Len(parts) = 2 THEN parts[2] ELSE <<>>
         IN  Returns(Rat(sign * DigitsValue(whole \o fraction, 0),
                         PowerOfTen(Len(fraction))))
    ELSE Raises("ValueError: could not convert string to float")

float_of(text) ==
    float_of_parts(SignOf(Strip(text)), Split(Unsigned(Strip(text)), "."))

\* os.getenv(key): an Optional text
getenv(environ, key) == IF key \in DOMAIN environ THEN <<environ[key]>> ELSE <<>>

\* the texts of the string fields
TextLAB == <<"L", "A", "B">>

TextRGB == <<"R", "G", "B">>

TextEdgeBased == <<"e", "d", "g", "e", "_", "b", "a", "s", "e", "d">>

TextHistogram == <<"h", "i", "s", "t", "o", "g", "r", "a", "m">>

(***************************************************************************)
(* The configuration dataclasses with their field defaults, lines 16-75.   *)
(***************************************************************************)
BorderFillConfig ==
    [top_region_percentage |-> Rat(1, 10),
     bottom_region_percentage |-> Rat(1, 10),
     black_threshold |-> 1,
     white_threshold |-> 255,
     black_fill_threshold |-> Rat(5, 100),
     white_fill_threshold |-> Rat(5, 100),
     check_top |-> FALSE,
     check_bottom |-> TRUE,
     uniformity_required |-> Rat(90, 100)]

UniformColorConfig ==
    [color_delta_threshold |-> 15,
     color_space |-> TextLAB,
     uniform_coverage_threshold |-> Rat(85, 100),
     sample_size |-> 1000,
     ignore_edges |-> TRUE,
     edge_ignore_percentage |-> Rat(2, 100)]

BackgroundDetectionConfig ==
    [detection_method |-> TextEdgeBased,
     corner_sample_percentage |-> Rat(8, 100),
     edge_sample_percentage |-> Rat(5, 100),
     background_coverage_threshold |-> Rat(65, 100),
     background_color_tolerance |-> 25,
     histogram_bins |-> 64,
     dominant_color_threshold |-> Rat(60, 100)]

\* a (width, height) tuple of a ratio list
RatioTuple(width, height) == <<Rat(width, 1), Rat(height, 1)>>

DefaultTargetRatios ==
    <<RatioTuple(16, 9), RatioTuple(4, 3), RatioTuple(1, 1), RatioTuple(3, 4),
      RatioTuple(9, 16)>>

RatioConfig ==
    [enabled |-> TRUE,
     target_ratios |-> DefaultTargetRatios,
     tolerance |-> Rat(1, 10),
     check_minimum_dimensions |-> TRUE,
     minimum_width |-> 100,
     minimum_height |-> 100,
     check_maximum_dimensions |-> FALSE,
     maximum_width |-> 10000,
     maximum_height |-> 10000]

CanonicalDetectors == <<"border_fill", "uniform_color", "background", "ratio">>

DetectionConfig ==
    [border_fill |-> BorderFillConfig,
     uniform_color |-> UniformColorConfig,
     background |-> BackgroundDetectionConfig,
     ratio |-> RatioConfig,
     enabled_detectors |-> CanonicalDetectors]

(***************************************************************************)
(* The environment readers, lines 101-146.  _get_environment_float and     *)
(* _get_environment_int hand str(default) to _get_environment_value: the   *)
(* default is given here as that text.  The converter is named, "float" or *)
(* "int".                                                                  *)
(***************************************************************************)
convert(converter, text) == IF converter = "float" THEN float_of(text) ELSE int_of(text)

get_environment_value(environ, key, default_text, converter) ==
    LET value == getenv(environ, key)
    IN  IF value # <<>> THEN convert(converter, value[1]) ELSE convert(converter, default_text)

get_environment_float(environ, key, default_text) ==
    get_environment_value(environ, key, default_text, "float")

get_environment_int(environ, key, default_text) ==
    get_environment_value(environ, key, default_text, "int")

TrueTexts == {<<"t", "r", "u", "e">>, <<"1">>, <<"y", "e", "s">>, <<"o", "n">>}

get_environment_bool_case_sensitive(environ, key, default) ==
    LET value == getenv(environ, key)
    IN  IF value = <<>> THEN default ELSE value[1] \in TrueTexts

get_environment_bool(environ, key, default) ==
    LET value == getenv(environ, key)
    IN  IF value = <<>> THEN default ELSE Lower(value[1]) \in TrueTexts

get_environment_string(environ, key, default) ==
    LET value == getenv(environ, key)
    IN  IF value = <<>> THEN default ELSE value[1]

(***************************************************************************)
(* The loop of _get_environment_ratios, lines 139-145: an entry is kept    *)
(* when it unpacks into exactly two parts and float accepts both; every    *)
(* other entry raises ValueError and is skipped.                           *)
(***************************************************************************)
RECURSIVE parse_ratios(_)
parse_ratios(entries) ==
    IF entries = <<>>
    THEN <<>>
    ELSE LET parts == Split(Strip(Head(entries)), ":")
             ratios == parse_ratios(Tail(entries))
         IN  IF /\ Len(parts) = 2
                /\ ~float_of(parts[1]).raised
                /\ ~float_of(parts[2]).raised
             THEN <<<<float_of(parts[1]).result, float_of(parts[2]).result>>>> \o ratios
             ELSE ratios

get_environment_ratios(environ, key, default) ==
    LET value == getenv(environ, key)
    IN  IF value = <<>>
        THEN default
        ELSE LET ratios == parse_ratios(Split(value[1], ","))
             IN  IF ratios # <<>> THEN ratios ELSE default

detector_enable_flags ==
    <<<<"border_fill", "PXG_DETECTOR_BORDER_FILL_ENABLED">>,
      <<"uniform_color", "PXG_DETECTOR_UNIFORM_COLOR_ENABLED">>,
      <<"background", "PXG_DETECTOR_BACKGROUND_ENABLED">>,
      <<"ratio", "PXG_DETECTOR_RATIO_ENABLED">>>>

get_custom_enabled_detectors_default_off(environ) ==
    LET enabled == SelectSeq(detector_enable_flags,
                             LAMBDA flag : get_environment_bool(environ, flag[2], FALSE))
    IN  [i \in 1..Len(enabled) |-> enabled[i][1]]

get_custom_enabled_detectors(environ) ==
    LET enabled == SelectSeq(detector_enable_flags,
                             LAMBDA flag : get_environment_bool(environ, flag[2], TRUE))
    IN  [i \in 1..Len(enabled) |-> enabled[i][1]]

(***************************************************************************)
(* The custom configuration, lines 165-288.  The fields are read in the    *)
(* order written; the first conversion that raises ends the call with its  *)
(* ValueError.                                                             *)
(***************************************************************************)
AnyRaised(outcomes) == \E i \in 1..Len(outcomes) : outcomes[i].raised

FirstRaised(outcomes) ==
    outcomes[CHOOSE i \in 1..Len(outcomes) :
                 outcomes[i].raised /\ \A j \in 1..(i - 1) : ~outcomes[j].raised]

border_fill_config_of(environ, numbers) ==
    IF AnyRaised(numbers)
    THEN FirstRaised(numbers)
    ELSE Returns([top_region_percentage |-> numbers[1].result,
                  bottom_region_percentage |-> numbers[2].result,
                  black_threshold |-> numbers[3].result,
                  white_threshold |-> numbers[4].result,
                  black_fill_threshold |-> numbers[5].result,
                  white_fill_threshold |-> numbers[6].result,
                  check_top |->
                      get_environment_bool(environ, "PXG_BORDER_FILL_CHECK_TOP", FALSE),
                  check_bottom |->
                      get_environment_bool(environ, "PXG_BORDER_FILL_CHECK_BOTTOM", TRUE),
                  uniformity_required |-> numbers[7].result])

create_border_fill_config_from_env(environ) ==
    border_fill_config_of(
        environ,
        <<get_environment_float(environ, "PXG_BORDER_FILL_TOP_REGION_PERCENTAGE",
                                  <<"0", ".", "1">>),
          get_environment_float(environ, "PXG_BORDER_FILL_BOTTOM_REGION_PERCENTAGE",
                                  <<"0", ".", "1">>),
          get_environment_int(environ, "PXG_BORDER_FILL_BLACK_THRESHOLD",
                                <<"3", "0">>),
          get_environment_int(environ, "PXG_BORDER_FILL_WHITE_THRESHOLD",
                                <<"2", "2", "5">>),
          get_environment_float(environ, "PXG_BORDER_FILL_BLACK_FILL_THRESHOLD",
                                  <<"0", ".", "0", "5">>),
          get_environment_float(environ, "PXG_BORDER_FILL_WHITE_FILL_THRESHOLD",
                                  <<"0", ".", "0", "5">>),
          get_environment_float(environ, "PXG_BORDER_FILL_UNIFORMITY_REQUIRED",
                                  <<"0", ".", "9">>)>>)

uniform_color_config_of(environ, numbers) ==
    IF AnyRaised(numbers)
    THEN FirstRaised(numbers)
    ELSE Returns([color_delta_threshold |-> numbers[1].result,
                  color_space |->
                      get_environment_string(environ, "PXG_UNIFORM_COLOR_SPACE",
                                             TextLAB),
                  uniform_coverage_threshold |-> numbers[2].result,
                  sample_size |-> numbers[3].result,
                  ignore_edges |->
                      get_environment_bool(environ, "PXG_UNIFORM_COLOR_IGNORE_EDGES", TRUE),
                  edge_ignore_percentage |-> numbers[4].result])

create_uniform_color_config_from_env(environ) ==
    uniform_color_config_of(
        environ,
        <<get_environment_int(environ, "PXG_UNIFORM_COLOR_DELTA_THRESHOLD",
                                <<"1", "5">>),
          get_environment_float(environ, "PXG_UNIFORM_COLOR_COVERAGE_THRESHOLD",
                                  <<"0", ".", "8", "5">>),
          get_environment_int(environ, "PXG_UNIFORM_COLOR_SAMPLE_SIZE",
                                <<"1", "0", "0", "0">>),
          get_environment_float(environ, "PXG_UNIFORM_COLOR_EDGE_IGNORE_PERCENTAGE",
                                  <<"0", ".", "0", "2">>)>>)

background_config_of(environ, numbers) ==
    IF AnyRaised(numbers)
    THEN FirstRaised(numbers)
    ELSE Returns([detection_method |->
                      get_environment_string(environ, "PXG_BACKGROUND_DETECTION_METHOD",
                                             TextEdgeBased),
                  corner_sample_percentage |-> numbers[1].result,
                  edge_sample_percentage |-> numbers[2].result,
                  background_coverage_threshold |-> numbers[3].result,
                  background_color_tolerance |-> numbers[4].result,
                  histogram_bins |-> numbers[5].result,
                  dominant_color_threshold |-> numbers[6].result])

create_background_config_from_env(environ) ==
    background_config_of(
        environ,
        <<get_environment_float(environ, "PXG_BACKGROUND_CORNER_SAMPLE_PERCENTAGE",
                                  <<"0", ".", "0", "8">>),
          get_environment_float(environ, "PXG_BACKGROUND_EDGE_SAMPLE_PERCENTAGE",
                                  <<"0", ".", "0", "5">>),
          get_environment_float(environ, "PXG_BACKGROUND_COVERAGE_THRESHOLD",
                                  <<"0", ".", "6", "5">>),
          get_environment_int(environ, "PXG_BACKGROUND_COLOR_TOLERANCE",
                                <<"2", "5">>),
          get_environment_int(environ, "PXG_BACKGROUND_HISTOGRAM_BINS",
                                <<"6", "4">>),
          get_environment_float(environ, "PXG_BACKGROUND_DOMINANT_COLOR_THRESHOLD",
                                  <<"0", ".", "6">>)>>)

ratio_config_of(environ, numbers) ==
    IF AnyRaised(numbers)
    THEN FirstRaised(numbers)
    ELSE Returns([enabled |->
                      get_environment_bool(environ, "PXG_RATIO_ENABLED", TRUE),
                  target_ratios |->
                      get_environment_ratios(environ, "PXG_RATIO_TARGET_RATIOS",
                                             DefaultTargetRatios),
                  tolerance |-> numbers[1].result,
                  check_minimum_dimensions |->
                      get_environment_bool(environ, "PXG_RATIO_CHECK_MINIMUM_DIMENSIONS", TRUE),
                  minimum_width |-> numbers[2].result,
                  minimum_height |-> numbers[3].result,
                  check_maximum_dimensions |->
                      get_environment_bool(environ, "PXG_RATIO_CHECK_MAXIMUM_DIMENSIONS", FALSE),
                  maximum_width |-> numbers[4].result,
                  maximum_height |-> numbers[5].result])

create_ratio_config_from_env(environ) ==
    ratio_config_of(
        environ,
        <<get_environment_float(environ, "PXG_RATIO_TOLERANCE",
                                  <<"0", ".", "1">>),
          get_environment_int(environ, "PXG_RATIO_MINIMUM_WIDTH",
                                <<"1", "0", "0">>),
          get_environment_int(environ, "PXG_RATIO_MINIMUM_HEIGHT",
                                <<"1", "0", "0">>),
          get_environment_int(environ, "PXG_RATIO_MAXIMUM_WIDTH",
                                <<"1", "0", "0", "0", "0">>),
          get_environment_int(environ, "PXG_RATIO_MAXIMUM_HEIGHT",
                                <<"1", "0", "0", "0", "0">>)>>)

detection_config_of(environ, sections) ==
    IF AnyRaised(sections)
    THEN FirstRaised(sections)
    ELSE Returns([border_fill |-> sections[1].result,
                  uniform_color |-> sections[2].result,
                  background |-> sections[3].result,
                  ratio |-> sections[4].result,
                  enabled_detectors |-> get_custom_enabled_detectors(environ)])

create_custom_config(environ) ==
    detection_config_of(
        environ,
        <<create_border_fill_config_from_env(environ),
          create_uniform_color_config_from_env(environ),
          create_background_config_from_env(environ),
          create_ratio_config_from_env(environ)>>)

(***************************************************************************)
(* The preset configurations, lines 290-396: the dataclass defaults with   *)
(* the fields each preset names.                                           *)
(***************************************************************************)
create_strict_config ==
    [DetectionConfig EXCEPT
        !.border_fill.black_fill_threshold = Rat(3, 100),
        !.border_fill.white_fill_threshold = Rat(3, 100),
        !.border_fill.uniformity_required = Rat(95, 100),
        !.uniform_color.color_delta_threshold = 10,
        !.uniform_color.uniform_coverage_threshold = Rat(80, 100),
        !.background.background_coverage_threshold = Rat(65, 100),
        !.background.background_color_tolerance = 15,
        !.ratio.tolerance = Rat(5, 100),
        !.ratio.target_ratios = <<RatioTuple(16, 9), RatioTuple(4, 3), RatioTuple(1, 1)>>,
        !.ratio.minimum_width = 200,
        !.ratio.minimum_height = 200]

create_lenient_config ==
    [DetectionConfig EXCEPT
        !.border_fill.black_fill_threshold = Rat(15, 100),
        !.border_fill.white_fill_threshold = Rat(15, 100),
        !.border_fill.uniformity_required = Rat(80, 100),
        !.uniform_color.color_delta_threshold = 30,
        !.uniform_color.uniform_coverage_threshold = Rat(95, 100),
        !.background.background_coverage_threshold = Rat(85, 100),
        !.background.background_color_tolerance = 35,
        !.ratio.tolerance = Rat(2, 10),
        !.ratio.target_ratios = DefaultTargetRatios \o <<RatioTuple(21, 9)>>,
        !.ratio.minimum_width = 50,
        !.ratio.minimum_height = 50]

create_photo_config ==
    [DetectionConfig EXCEPT
        !.border_fill.top_region_percentage = Rat(5, 100),
        !.border_fill.bottom_region_percentage = Rat(5, 100),
        !.border_fill.black_fill_threshold = Rat(8, 100),
        !.border_fill.white_fill_threshold = Rat(12, 100),
        !.border_fill.uniformity_required = Rat(85, 100),
        !.uniform_color.color_space = TextLAB,
        !.uniform_color.color_delta_threshold = 20,
        !.uniform_color.uniform_coverage_threshold = Rat(90, 100),
        !.uniform_color.ignore_edges = TRUE,
        !.background.detection_method = TextEdgeBased,
        !.background.background_coverage_threshold = Rat(75, 100),
        !.background.background_color_tolerance = 25,
        !.ratio.tolerance = Rat(1, 10),
        !.ratio.target_ratios = DefaultTargetRatios,
        !.ratio.minimum_width = 300,
        !.ratio.minimum_height = 300]

create_document_config ==
    [DetectionConfig EXCEPT
        !.border_fill.black_fill_threshold = Rat(2, 100),
        !.border_fill.white_fill_threshold = Rat(30, 100),
        !.border_fill.uniformity_required = Rat(95, 100),
        !.uniform_color.color_space = TextRGB,
        !.uniform_color.color_delta_threshold = 25,
        !.uniform_color.uniform_coverage_threshold = Rat(95, 100),
        !.uniform_color.ignore_edges = FALSE,
        !.background.detection_method = TextHistogram,
        !.background.background_coverage_threshold = Rat(80, 100),
        !.background.background_color_tolerance = 30,
        !.ratio.tolerance = Rat(5, 100),
        !.ratio.target_ratios = <<RatioTuple(4, 3), RatioTuple(1, 1), RatioTuple(3, 4),
                                  <<Rat(1414, 1000), Rat(1, 1)>>>>,
        !.ratio.minimum_width = 500,
        !.ratio.minimum_height = 500]

(***************************************************************************)
(* ConfigFactory.from_mode, lines 87-99: the creator registered for the    *)
(* mode, DetectionConfig() for a mode with none.                           *)
(***************************************************************************)
from_mode(mode, environ) ==
    CASE mode = "strict" -> Returns(create_strict_config)
      [] mode = "lenient" -> Returns(create_lenient_config)
      [] mode = "photo" -> Returns(create_photo_config)
      [] mode = "document" -> Returns(create_document_config)
      [] mode = "custom" -> create_custom_config(environ)
      [] OTHER -> Returns(DetectionConfig)

(***************************************************************************)
(* The modes and environments from_mode is called with.  "unknown" is a    *)
(* value that is no key of config_creators, as DetectionMode.DEFAULT is.   *)
(***************************************************************************)
Modes == {"strict", "default", "lenient", "photo", "document", "custom", "unknown"}

FlagKeys == {detector_enable_flags[i][2] : i \in 1..Len(detector_enable_flags)}

FlagTexts ==
    {<<"t", "r", "u", "e">>, <<"f", "a", "l", "s", "e">>}

NumericKeys ==
    {"PXG_BORDER_FILL_TOP_REGION_PERCENTAGE",
     "PXG_BORDER_FILL_BOTTOM_REGION_PERCENTAGE",
     "PXG_BORDER_FILL_BLACK_THRESHOLD", "PXG_BORDER_FILL_WHITE_THRESHOLD",
     "PXG_BORDER_FILL_BLACK_FILL_THRESHOLD",
     "PXG_BORDER_FILL_WHITE_FILL_THRESHOLD",
     "PXG_BORDER_FILL_UNIFORMITY_REQUIRED",
     "PXG_UNIFORM_COLOR_DELTA_THRESHOLD",
     "PXG_UNIFORM_COLOR_COVERAGE_THRESHOLD", "PXG_UNIFORM_COLOR_SAMPLE_SIZE",
     "PXG_UNIFORM_COLOR_EDGE_IGNORE_PERCENTAGE",
     "PXG_BACKGROUND_CORNER_SAMPLE_PERCENTAGE",
     "PXG_BACKGROUND_EDGE_SAMPLE_PERCENTAGE",
     "PXG_BACKGROUND_COVERAGE_THRESHOLD", "PXG_BACKGROUND_COLOR_TOLERANCE",
     "PXG_BACKGROUND_HISTOGRAM_BINS",
     "PXG_BACKGROUND_DOMINANT_COLOR_THRESHOLD", "PXG_RATIO_TOLERANCE",
     "PXG_RATIO_MINIMUM_WIDTH", "PXG_RATIO_MINIMUM_HEIGHT",
     "PXG_RATIO_MAXIMUM_WIDTH", "PXG_RATIO_MAXIMUM_HEIGHT"}

NumericTexts ==
    {<<"a", "b", "c">>, <<"7">>, <<"0", ".", "5">>, <<>>}

RatioTexts ==
    {<<"1", "6", ":", "9", ",", "4", ":", "3">>,
     <<"3", ":", "4", ",", "1", "6", ":", "9">>,
     <<"i", "n", "v", "a", "l", "i", "d">>, <<>>,
     <<"1", "6", ":", "9", ",", "b", "a", "d", ",", "1", ":", "1">>,
     <<" ", "4", " ", ":", " ", "3", " ">>, <<"1", ":", "0">>,
     <<"-", "1", ":", "2">>, <<"1", ":", "2", ":", "3">>,
     <<"1", "6", ":", "9", ",">>, <<"0", ".", "5", ":", "1">>}

BoolTexts ==
    {<<"t", "r", "u", "e">>, <<"T", "R", "U", "E">>, <<"T", "r", "u", "e">>,
     <<"1">>, <<"y", "e", "s">>, <<"Y", "E", "S">>, <<"o", "n">>,
     <<"O", "n">>, <<"f", "a", "l", "s", "e">>, <<"0">>,
     <<"i", "n", "v", "a", "l", "i", "d">>, <<>>,
     <<" ", "t", "r", "u", "e">>, <<"o", "f", "f">>, <<"n", "o">>, <<"2">>}

\* os.environ with the one variable key set to text
OneVariable(key, text) == [k \in {key} |-> text]

FlagEnvironments == UNION {[keys -> FlagTexts] : keys \in SUBSET FlagKeys}

NumericEnvironments == {OneVariable(key, text) : key \in NumericKeys, text \in NumericTexts}

RatioEnvironments == {OneVariable("PXG_RATIO_TARGET_RATIOS", text) : text \in RatioTexts}

OtherEnvironments ==
    {OneVariable("PXG_BORDER_FILL_CHECK_TOP", text) : text \in FlagTexts}
    \cup {OneVariable("PXG_UNIFORM_COLOR_SPACE", TextRGB),
          OneVariable("PXG_BACKGROUND_DETECTION_METHOD", TextHistogram)}

Environments ==
    FlagEnvironments \cup NumericEnvironments \cup RatioEnvironments
    \cup OtherEnvironments

BoolEnvironments ==
    {EmptyDict} \cup {OneVariable("PXG_RATIO_ENABLED", text) : text \in BoolTexts}

FromMode ==
    /\ call = Idle
    /\ \E mode \in Modes, environ \in Environments :
        LET r == from_mode(mode, environ)
        IN  /\ call' = [op |-> "from_mode", mode |-> mode, environ |-> environ,
                        raised |-> r.raised,
                        result |-> IF r.raised THEN <<>> ELSE <<r.result>>]
            /\ UNCHANGED <<detectors, emptied, image_analysis>>

GetEnvironmentBool ==
    /\ call = Idle
    /\ \E environ \in BoolEnvironments, default \in BOOLEAN :
        /\ call' = [op |-> "get_environment_bool", environ |-> environ,
                    key |-> "PXG_RATIO_ENABLED", default |-> default,
                    result |-> get_environment_bool(environ, "PXG_RATIO_ENABLED",
                                                    default)]
        /\ UNCHANGED <<detectors, emptied, image_analysis>>

GetEnvironmentRatios ==
    /\ call = Idle
    /\ \E environ \in {EmptyDict} \cup RatioEnvironments,
          default \in {DefaultTargetRatios, <<RatioTuple(1, 1)>>} :
        /\ call' = [op |-> "get_environment_ratios", environ |-> environ,
                    key |-> "PXG_RATIO_TARGET_RATIOS", default |-> default,
                    result |-> get_environment_ratios(
                                   environ, "PXG_RATIO_TARGET_RATIOS", default)]
        /\ UNCHANGED <<detectors, emptied, image_analysis>>

ConfigInit ==
    /\ detectors = <<>>
    /\ call = Idle
    /\ emptied = FALSE
    /\ image_analysis = ImageAnalysis("image.png", 2, 2)

ConfigNext ==
    \/ FromMode
    \/ GetEnvironmentBool
    \/ GetEnvironmentRatios
    \/ TakeResult

ConfigSpec == ConfigInit /\ [][ConfigNext]_vars

(***************************************************************************)
(* Properties of ConfigFactory.  A state with call.op = "from_mode" is the *)
(* state right after a call of from_mode.                                  *)
(***************************************************************************)
FromModeCalled == call.op = "from_mode"

CustomReturned == FromModeCalled /\ call.mode = "custom" /\ ~call.raised

Config == call.result[1]

\* a row of the mode table: the values a configuration must have
TableRow(black_fill, white_fill, uniformity, delta, coverage, color_space, background_coverage, background_tolerance, method, ratio_tolerance, minimum) ==
    [black_fill |-> black_fill, white_fill |-> white_fill, uniformity |-> uniformity,
     delta |-> delta, coverage |-> coverage, color_space |-> color_space,
     background_coverage |-> background_coverage,
     background_tolerance |-> background_tolerance, method |-> method,
     ratio_tolerance |-> ratio_tolerance, minimum |-> minimum]

\* the colour space and the method are Optional: two rows name neither
ModeTable ==
    [strict |-> TableRow(Rat(3, 100), Rat(3, 100), Rat(95, 100), 10, Rat(80, 100),
                         <<>>, Rat(65, 100), 15, <<>>, Rat(5, 100), 200),
     lenient |-> TableRow(Rat(15, 100), Rat(15, 100), Rat(80, 100), 30, Rat(95, 100),
                          <<>>, Rat(85, 100), 35, <<>>, Rat(2, 10), 50),
     photo |-> TableRow(Rat(8, 100), Rat(12, 100), Rat(85, 100), 20, Rat(90, 100),
                        <<TextLAB>>, Rat(75, 100), 25, <<TextEdgeBased>>,
                        Rat(1, 10), 300),
     document |-> TableRow(Rat(2, 100), Rat(30, 100), Rat(95, 100), 25, Rat(95, 100),
                           <<TextRGB>>, Rat(80, 100), 30, <<TextHistogram>>,
                           Rat(5, 100), 500),
     default |-> TableRow(Rat(5, 100), Rat(5, 100), Rat(90, 100), 15, Rat(85, 100),
                          <<TextLAB>>, Rat(70, 100), 25, <<TextEdgeBased>>,
                          Rat(1, 10), 100)]

RowOf(mode) == IF mode \in DOMAIN ModeTable THEN ModeTable[mode] ELSE ModeTable["default"]

MatchesRow(config, row) ==
    /\ RatEq(config.border_fill.black_fill_threshold, row.black_fill)
    /\ RatEq(config.border_fill.white_fill_threshold, row.white_fill)
    /\ RatEq(config.border_fill.uniformity_required, row.uniformity)
    /\ config.uniform_color.color_delta_threshold = row.delta
    /\ RatEq(config.uniform_color.uniform_coverage_threshold, row.coverage)
    /\ row.color_space # <<>> => config.uniform_color.color_space = row.color_space[1]
    /\ RatEq(config.background.background_coverage_threshold, row.background_coverage)
    /\ config.background.background_color_tolerance = row.background_tolerance
    /\ row.method # <<>> => config.background.detection_method = row.method[1]
    /\ RatEq(config.ratio.tolerance, row.ratio_tolerance)
    /\ config.ratio.minimum_width = row.minimum
    /\ config.ratio.minimum_height = row.minimum

(***************************************************************************)
(* C23.  from_mode returns, for each of the preset modes strict, lenient,  *)
(* photo, document and default, exactly the values of the mode table, the  *)
(* default mode having background coverage threshold 0.70 and border       *)
(* black_threshold 30; a mode with no preset of its own yields the default *)
(* configuration.                                                          *)
(***************************************************************************)
C23_PresetsMatchModeTable ==
    (FromModeCalled /\ call.mode # "custom") =>
        /\ ~call.raised
        /\ MatchesRow(Config, RowOf(call.mode))
        /\ call.mode \notin {"strict", "lenient", "photo", "document"} =>
               /\ Config.border_fill.black_threshold = 30
               /\ Config = DetectionConfig

\* the name of a detector's enable flag
FlagKey(name) ==
    CASE name = "border_fill" -> "PXG_DETECTOR_BORDER_FILL_ENABLED"
      [] name = "uniform_color" -> "PXG_DETECTOR_UNIFORM_COLOR_ENABLED"
      [] name = "background" -> "PXG_DETECTOR_BACKGROUND_ENABLED"
      [] name = "ratio" -> "PXG_DETECTOR_RATIO_ENABLED"

\* the texts of the modelled environments that spell true, 1, yes or on in any case
TrueSpellings ==
    {<<"t", "r", "u", "e">>, <<"T", "R", "U", "E">>, <<"T", "r", "u", "e">>, <<"1">>,
     <<"y", "e", "s">>, <<"Y", "E", "S">>, <<"o", "n">>, <<"O", "n">>}

FlagIsTrue(environ, name) ==
    FlagKey(name) \in DOMAIN environ => environ[FlagKey(name)] \in TrueSpellings

CanonicalPosition(name) ==
    CHOOSE i \in 1..Len(CanonicalDetectors) : CanonicalDetectors[i] = name

(***************************************************************************)
(* C24.  In custom mode the enabled-detector list contains exactly the     *)
(* detectors whose PXG_DETECTOR_<NAME>_ENABLED flag evaluates to true      *)
(* (each flag read independently, default true when unset), always in the  *)
(* canonical order border_fill, uniform_color, background, ratio, with no  *)
(* duplicates; with all four flags false the list is empty.                *)
(***************************************************************************)
C24_EnabledDetectorsCanonical ==
    CustomReturned =>
        LET enabled == Config.enabled_detectors
            names == {CanonicalDetectors[i] : i \in 1..Len(CanonicalDetectors)}
        IN  /\ \A i \in 1..Len(enabled) : enabled[i] \in names
            /\ \A name \in names :
                   (\E i \in 1..Len(enabled) : enabled[i] = name)
                       <=> FlagIsTrue(call.environ, name)
            /\ \A i, j \in 1..Len(enabled) :
                   i < j => CanonicalPosition(enabled[i]) < CanonicalPosition(enabled[j])
            /\ (\A name \in names : ~FlagIsTrue(call.environ, name)) => enabled = <<>>

\* border_fill and background switched off, uniform_color left unset, ratio
\* switched on
C24_Witness ==
    /\ CustomReturned
    /\ DOMAIN call.environ = FlagKeys \ {FlagKey("uniform_color")}
    /\ ~FlagIsTrue(call.environ, "border_fill")
    /\ ~FlagIsTrue(call.environ, "background")
    /\ FlagIsTrue(call.environ, "ratio")
    /\ Config.enabled_detectors = <<"uniform_color", "ratio">>

\* the numeric fields of the custom configuration: section, field, variable,
\* type and documented default
NumericFields ==
    <<<<"border_fill", "top_region_percentage", "PXG_BORDER_FILL_TOP_REGION_PERCENTAGE", "float", Rat(1, 10)>>,
      <<"border_fill", "bottom_region_percentage", "PXG_BORDER_FILL_BOTTOM_REGION_PERCENTAGE", "float", Rat(1, 10)>>,
      <<"border_fill", "black_threshold", "PXG_BORDER_FILL_BLACK_THRESHOLD", "int", 30>>,
      <<"border_fill", "white_threshold", "PXG_BORDER_FILL_WHITE_THRESHOLD", "int", 225>>,
      <<"border_fill", "black_fill_threshold", "PXG_BORDER_FILL_BLACK_FILL_THRESHOLD", "float", Rat(1, 20)>>,
      <<"border_fill", "white_fill_threshold", "PXG_BORDER_FILL_WHITE_FILL_THRESHOLD", "float", Rat(1, 20)>>,
      <<"border_fill", "uniformity_required", "PXG_BORDER_FILL_UNIFORMITY_REQUIRED", "float", Rat(9, 10)>>,
      <<"uniform_color", "color_delta_threshold", "PXG_UNIFORM_COLOR_DELTA_THRESHOLD", "int", 15>>,
      <<"uniform_color", "uniform_coverage_threshold", "PXG_UNIFORM_COLOR_COVERAGE_THRESHOLD", "float", Rat(17, 20)>>,
      <<"uniform_color", "sample_size", "PXG_UNIFORM_COLOR_SAMPLE_SIZE", "int", 1000>>,
      <<"uniform_color", "edge_ignore_percentage", "PXG_UNIFORM_COLOR_EDGE_IGNORE_PERCENTAGE", "float", Rat(1, 50)>>,
      <<"background", "corner_sample_percentage", "PXG_BACKGROUND_CORNER_SAMPLE_PERCENTAGE", "float", Rat(2, 25)>>,
      <<"background", "edge_sample_percentage", "PXG_BACKGROUND_EDGE_SAMPLE_PERCENTAGE", "float", Rat(1, 20)>>,
      <<"background", "background_coverage_threshold", "PXG_BACKGROUND_COVERAGE_THRESHOLD", "float", Rat(13, 20)>>,
      <<"background", "background_color_tolerance", "PXG_BACKGROUND_COLOR_TOLERANCE", "int", 25>>,
      <<"background", "histogram_bins", "PXG_BACKGROUND_HISTOGRAM_BINS", "int", 64>>,
      <<"background", "dominant_color_threshold", "PXG_BACKGROUND_DOMINANT_COLOR_THRESHOLD", "float", Rat(3, 5)>>,
      <<"ratio", "tolerance", "PXG_RATIO_TOLERANCE", "float", Rat(1, 10)>>,
      <<"ratio", "minimum_width", "PXG_RATIO_MINIMUM_WIDTH", "int", 100>>,
      <<"ratio", "minimum_height", "PXG_RATIO_MINIMUM_HEIGHT", "int", 100>>,
      <<"ratio", "maximum_width", "PXG_RATIO_MAXIMUM_WIDTH", "int", 10000>>,
      <<"ratio", "maximum_height", "PXG_RATIO_MAXIMUM_HEIGHT", "int", 10000>>>>

Unparsable(text, type) == IF type = "int" THEN int_of(text).raised ELSE float_of(text).raised

FieldHasDefault(config, numeric_field) ==
    LET value == config[numeric_field[1]][numeric_field[2]]
    IN  IF numeric_field[4] = "int"
        THEN value = numeric_field[5]
        ELSE RatEq(value, numeric_field[5])

(***************************************************************************)
(* C25.  Custom mode falls back to the documented default of a field       *)
(* whenever its environment variable is missing or cannot be parsed: for   *)
(* every numeric field, a set but unparsable value yields the field's      *)
(* default and from_mode(custom) still returns a DetectionConfig without   *)
(* raising.                                                                *)
(***************************************************************************)
C25_NumericFieldsFallBack ==
    (FromModeCalled /\ call.mode = "custom") =>
        /\ ~call.raised
        /\ \A n \in 1..Len(NumericFields) :
               LET numeric_field == NumericFields[n]
                   value == getenv(call.environ, numeric_field[3])
               IN  (value = <<>> \/ Unparsable(value[1], numeric_field[4]))
                       => FieldHasDefault(Config, numeric_field)

RatiosCalled == call.op = "get_environment_ratios"

\* an entry that is two colon-separated numbers
IsRatioEntry(entry) ==
    LET parts == Split(Strip(entry), ":")
    IN  Len(parts) = 2 /\ ~float_of(parts[1]).raised /\ ~float_of(parts[2]).raised

RatioOfEntry(entry) ==
    LET parts == Split(Strip(entry), ":")
    IN  <<float_of(parts[1]).result, float_of(parts[2]).result>>

(***************************************************************************)
(* C26.  Ratio-list parsing keeps, in input order, exactly the             *)
(* comma-separated entries that are two colon-separated numbers, skips     *)
(* every malformed entry, and returns the default ratio list when the      *)
(* variable is unset or when no entry parses (including the empty string); *)
(* every ratio in the returned list is a width:height pair with both       *)
(* values > 0.                                                             *)
(***************************************************************************)
C26_RatioListParsing ==
    RatiosCalled =>
        LET value == getenv(call.environ, call.key)
            kept == IF value = <<>>
                    THEN <<>>
                    ELSE SelectSeq(Split(value[1], ","), IsRatioEntry)
        IN  /\ call.result = IF kept = <<>>
                             THEN call.default
                             ELSE [i \in 1..Len(kept) |-> RatioOfEntry(kept[i])]
            /\ \A i \in 1..Len(call.result) :
                   /\ Len(call.result[i]) = 2
                   /\ RatLess(RatZero, call.result[i][1])
                   /\ RatLess(RatZero, call.result[i][2])

BoolCalled == call.op = "get_environment_bool"

(***************************************************************************)
(* C27.  Boolean environment parsing returns the caller's default when the *)
(* variable is unset, true when the value is one of true/1/yes/on compared *)
(* case-insensitively, and false for every other set value (including      *)
(* unrecognised text such as "invalid"), whatever the default is.          *)
(***************************************************************************)
C27_BooleanParsing ==
    BoolCalled =>
        LET value == getenv(call.environ, call.key)
        IN  call.result = IF value = <<>>
                          THEN call.default
                          ELSE value[1] \in TrueSpellings

\* "YES" read with default false is true
C27_Witness ==
    /\ BoolCalled
    /\ getenv(call.environ, call.key) = <<<<"Y", "E", "S">>>>
    /\ ~call.default
    /\ call.result

(***************************************************************************)
(* analyzers/image.py: ImageAnalyzer built from a DetectionConfig.         *)
(* _build_detector makes one detector per name of config.enabled_detectors *)
(* that detector_factory_map knows, in the list's order; the analyzer's    *)
(* composite holds them.  A file gives each detector's behaviour on it.    *)
(***************************************************************************)
EnabledLists ==
    {SelectSeq(CanonicalDetectors, LAMBDA name : name \in names) :
        names \in SUBSET ConcreteDetectors}
    \cup {<<"ratio", "border_fill">>, <<"ratio", "ratio">>,
          <<"border_fill", "sharpness", "ratio">>}

build_detector(enabled_detectors) ==
    LET active_detectors ==
            SelectSeq(enabled_detectors, LAMBDA name : name \in ConcreteDetectors)
    IN  [i \in 1..Len(active_detectors) |-> Detector(i, active_detectors[i])]

AnalyzerFiles(ds) ==
    {[path |-> "corrupt.png", decodable |-> FALSE]}
    \cup {[path |-> "image.png", decodable |-> TRUE, height |-> 2, width |-> 3,
           behaviours |-> behaviours] :
            behaviours \in [1..Len(ds) -> {Clean, Flagging, Failing}]}

\* ImageAnalyzer(config): the analyzer in use is replaced by a new one
BuildAnalyzer ==
    /\ call = Idle
    /\ \E enabled_detectors \in EnabledLists :
        /\ detectors' = build_detector(enabled_detectors)
        /\ call' = [op |-> "build_detector", enabled_detectors |-> enabled_detectors]
        /\ UNCHANGED <<emptied, image_analysis>>

AnalyzeImage ==
    /\ call = Idle
    /\ \E file \in AnalyzerFiles(detectors) :
        LET r == analyze(detectors, file)
        IN  /\ call' = [op |-> "analyze", file |-> file, raised |-> r.raised,
                        ret |-> IF r.raised THEN <<>> ELSE <<r.result>>]
            /\ UNCHANGED <<detectors, emptied, image_analysis>>

AnalyzerInit ==
    /\ detectors = build_detector(DetectionConfig.enabled_detectors)
    /\ call = Idle
    /\ emptied = FALSE
    /\ image_analysis = ImageAnalysis("image.png", 2, 2)

AnalyzerNext ==
    \/ BuildAnalyzer
    \/ AnalyzeImage
    \/ TakeResult

AnalyzerSpec == AnalyzerInit /\ [][AnalyzerNext]_vars

\* the names of the enabled detectors the analyzer can build
BuiltNames(enabled_detectors) ==
    SelectSeq(enabled_detectors, LAMBDA name : name \in ConcreteDetectors)

(***************************************************************************)
(* C28.  The ImageAnalysis returned by ImageAnalyzer.analyze holds in      *)
(* detection_results the results of the detectors that ran, one            *)
(* DetectionResult per enabled detector, in detector execution order (the  *)
(* order of config.enabled_detectors), with width and height taken from    *)
(* the buffer's first two dimensions.                                      *)
(***************************************************************************)
C28_OneResultPerEnabledDetector ==
    /\ call.op = "build_detector" =>
           /\ Len(detectors) = Len(BuiltNames(call.enabled_detectors))
           /\ \A i \in 1..Len(detectors) :
                  detectors[i].name = BuiltNames(call.enabled_detectors)[i]
    /\ (call.op = "analyze" /\ ~call.raised) =>
           LET returned == call.ret[1]
           IN  /\ returned.width = call.file.width
               /\ returned.height = call.file.height
               /\ Len(returned.detection_results) = Len(detectors)
               /\ \A i \in 1..Len(detectors) :
                      returned.detection_results[i].detector_name = detectors[i].name

(***************************************************************************)
(* The analysis region of UniformColorDetector as the margins define it:   *)
(* the rows m_v + 1 .. height - m_v and the columns m_h + 1 .. width - m_h *)
(* of the image, row after row.                                            *)
(***************************************************************************)
UniformHeight == Len(call.image.pixels)

UniformWidth == Len(call.image.pixels[1])

VerticalMargin == IntOfProduct(UniformHeight, call.config.edge_ignore_percentage)

HorizontalMargin == IntOfProduct(UniformWidth, call.config.edge_ignore_percentage)

ExpectedRegionRows == UniformHeight - 2 * VerticalMargin

ExpectedRegionColumns == UniformWidth - 2 * HorizontalMargin

ExpectedRegionPixels ==
    LET pixel(k) ==
            LET r == VerticalMargin + 1 + ((k - 1) \div ExpectedRegionColumns)
                c == HorizontalMargin + 1 + ((k - 1) % ExpectedRegionColumns)
            IN  <<call.image.pixels[r][c], call.image.pixels[r][c],
                  call.image.pixels[r][c]>>
    IN  [k \in 1..(ExpectedRegionRows * ExpectedRegionColumns) |-> pixel(k)]

(***************************************************************************)
(* C29.  With edge-ignore enabled, UniformColorDetector's analysis region  *)
(* is the image with a margin of m_v = floor(height x                      *)
(* edge_ignore_percentage) rows removed from top and bottom and m_h =      *)
(* floor(width x edge_ignore_percentage) columns removed from left and     *)
(* right, (height - 2*m_v) x (width - 2*m_h) pixels, also where a margin   *)
(* is 0 (then nothing is cropped on that axis); the sample is the whole    *)
(* region when it has at most sample_size pixels and exactly sample_size   *)
(* pixels of it otherwise.                                                 *)
(***************************************************************************)
C29_RegionWithinMargins ==
    (/\ call.op = "uniform_color_detect"
     /\ call.image.kind = "array"
     /\ call.config.ignore_edges) =>
        IF Len(ExpectedRegionPixels) <= call.config.sample_size
        THEN call.sampled_pixels = ExpectedRegionPixels
        ELSE /\ Len(call.sampled_pixels) = call.config.sample_size
             /\ \A i \in 1..Len(call.sampled_pixels) :
                    \E k \in 1..Len(ExpectedRegionPixels) :
                        call.sampled_pixels[i] = ExpectedRegionPixels[k]

(***************************************************************************)
(* The region BorderFillDetector should analyse: the first, or the last,   *)
(* floor(height x region_percentage) rows of the image.                    *)
(***************************************************************************)
RegionPercentage(region_name) ==
    IF region_name = "top"
    THEN call.config.top_region_percentage
    ELSE call.config.bottom_region_percentage

ExpectedRowCount(region_name) ==
    IntOfProduct(Len(call.image.pixels), RegionPercentage(region_name))

ExpectedRows(region_name) ==
    IF region_name = "top"
    THEN 1..ExpectedRowCount(region_name)
    ELSE (Len(call.image.pixels) - ExpectedRowCount(region_name) + 1)
             ..Len(call.image.pixels)

ExpectedBlackCount(region_name) ==
    Cardinality({p \in ExpectedRows(region_name) \X (1..ImageWidth) :
                    call.image.pixels[p[1]][p[2]] < call.config.black_threshold})

(***************************************************************************)
(* C30.  The region BorderFillDetector analyses for top (resp. bottom)     *)
(* consists of exactly the first (resp. last) floor(height x               *)
(* region_percentage) rows of the image across the full width, for every   *)
(* height and fraction, including the case where that row count is 0       *)
(* (then the region is empty and is not flagged); the top and bottom       *)
(* regions are extracted and judged independently of each other.           *)
(***************************************************************************)
C30_RegionRows ==
    BorderAnalysed =>
        \A n \in RegionNames :
            Checked(n) =>
                LET analysed == BorderResult.details[DetailsKey(n)]
                    size == ExpectedRowCount(n) * ImageWidth
                IN  IF size = 0
                    THEN ~analysed.is_problematic /\ analysed.issues = <<>>
                    ELSE /\ ~IsNaN(analysed.black_percentage)
                         /\ RatEq(analysed.black_percentage,
                                  Rat(ExpectedBlackCount(n), size))

====
